---- MODULE Spec2Model ----
(***************************************************************************)
(* State-machine model of the SMS quiz server (src/server.py) with its     *)
(* question bank and graders (src/tracks.py) and its user table            *)
(* (src/db.py).                                                            *)
(*                                                                         *)
(* Text (message bodies, phone numbers, track and zone names, question     *)
(* ids) is a sequence of one-character strings, so that strip / upper /    *)
(* split / regex filtering are computed the way the code computes them.    *)
(* An optional value (Python None or a value) is a sequence of length 0    *)
(* or 1.  Time is counted in minutes since the epoch; an ISO-8601 UTC      *)
(* string is the pair <<day, minute of day>>, compared lexicographically   *)
(* like the strings the code compares.                                     *)
(***************************************************************************)
EXTENDS Integers, Sequences, FiniteSets, TLC

VARIABLES
    db,        \* the users table: normalized phone -> <<>> (no row) or <<row>>
    now,       \* wall clock, minutes since the epoch (UTC)
    ev,        \* the operation that produced this state and what it returned
    stopped,   \* history: phones whose last opt command was STOP (not yet START)
    sg         \* the duplicate-rejection loop of _rand_local_minutes, stepwise

vars == <<db, now, ev, stopped, sg>>

(***************************************************************************)
(* Bounds of the model                                                     *)
(***************************************************************************)
\* The clock is scaled: an hour has MinutesPerHour minutes and a day has
\* HoursPerDay hours; the code's arithmetic is kept, only the units shrink.
MinutesPerHour == 2
HoursPerDay == 3
\* The clock advances at most Horizon minutes past its start.
Horizon == 9
\* Gradings are counted up to MaxAsked per user.
MaxAsked == 3

DayLen == HoursPerDay * MinutesPerHour

(***************************************************************************)
(* Text helpers (Python str methods and the re.sub filters used)           *)
(***************************************************************************)
LowerAZ == <<"a","b","c","d","e","f","g","h","i","j","k","l","m",
             "n","o","p","q","r","s","t","u","v","w","x","y","z">>
UpperAZ == <<"A","B","C","D","E","F","G","H","I","J","K","L","M",
             "N","O","P","Q","R","S","T","U","V","W","X","Y","Z">>
DigitChars == <<"0","1","2","3","4","5","6","7","8","9">>

Range(s) == {s[i] : i \in DOMAIN s}

IsSpace(c) == c = " "
IsDigit(c) == c \in Range(DigitChars)
IsUpperLetter(c) == c \in Range(UpperAZ)

UpperChar(c) ==
    IF \E i \in DOMAIN LowerAZ : LowerAZ[i] = c
    THEN UpperAZ[CHOOSE i \in DOMAIN LowerAZ : LowerAZ[i] = c]
    ELSE c

LowerChar(c) ==
    IF \E i \in DOMAIN UpperAZ : UpperAZ[i] = c
    THEN LowerAZ[CHOOSE i \in DOMAIN UpperAZ : UpperAZ[i] = c]
    ELSE c

\* str.upper / str.lower
Upper(s) == [i \in DOMAIN s |-> UpperChar(s[i])]
Lower(s) == [i \in DOMAIN s |-> LowerChar(s[i])]

\* str.strip
Strip(s) ==
    LET keep == {i \in DOMAIN s : ~IsSpace(s[i])}
    IN  IF keep = {} THEN <<>>
        ELSE LET lo == CHOOSE i \in keep : \A j \in keep : i <= j
                 hi == CHOOSE i \in keep : \A j \in keep : j <= i
             IN  SubSeq(s, lo, hi)

\* s.split()[0] if s.split() else "": the first whitespace-delimited token
FirstToken(s) ==
    LET t == Strip(s)
        sp == {i \in DOMAIN t : IsSpace(t[i])}
    IN  IF sp = {} THEN t
        ELSE SubSeq(t, 1, (CHOOSE i \in sp : \A j \in sp : i <= j) - 1)

\* s.partition(" ")[2]: what follows the first space ("" when there is none)
AfterFirstSpace(s) ==
    LET sp == {i \in DOMAIN s : s[i] = " "}
    IN  IF sp = {} THEN <<>>
        ELSE SubSeq(s, (CHOOSE i \in sp : \A j \in sp : i <= j) + 1, Len(s))

\* s.split(":")
RECURSIVE SplitColon(_)
SplitColon(s) ==
    LET cs == {i \in DOMAIN s : s[i] = ":"}
    IN  IF cs = {} THEN <<s>>
        ELSE LET k == CHOOSE i \in cs : \A j \in cs : i <= j
             IN  <<SubSeq(s, 1, k - 1)>> \o SplitColon(SubSeq(s, k + 1, Len(s)))

DigitVal(c) == (CHOOSE i \in DOMAIN DigitChars : DigitChars[i] = c) - 1

\* int(digits) for a non-empty run of decimal digits
RECURSIVE DigitsToNat(_)
DigitsToNat(d) ==
    IF d = <<>> THEN 0
    ELSE 10 * DigitsToNat(SubSeq(d, 1, Len(d) - 1)) + DigitVal(d[Len(d)])

\* str(n) for a natural number
RECURSIVE NatToDigits(_)
NatToDigits(n) ==
    IF n < 10 THEN <<DigitChars[n + 1]>>
    ELSE NatToDigits(n \div 10) \o <<DigitChars[(n % 10) + 1]>>

RECURSIVE Pow10(_)
Pow10(k) == IF k = 0 THEN 1 ELSE 10 * Pow10(k - 1)

FirstIndex(S) == CHOOSE i \in S : \A j \in S : i <= j

Min2(a, b) == IF a <= b THEN a ELSE b
Max2(a, b) == IF a >= b THEN a ELSE b
Abs(a) == IF a < 0 THEN -a ELSE a

\* The empty optional (None) and a present one.
None == <<>>
Some(v) == <<v>>

(***************************************************************************)
(* Phone normalization                                                     *)
(***************************************************************************)
\* A variant whose ten-digit rule omits the plus sign
_normalize_phone_NoPlus(phone) ==
    LET s == Strip(phone)
    IN  IF s = <<>> THEN <<>>
        ELSE IF s[1] = "+" THEN s
        ELSE LET digits == SelectSeq(s, IsDigit)
             IN  IF Len(digits) = 10 THEN <<"1">> \o digits
                 ELSE IF Len(digits) = 11 /\ digits[1] = "1" THEN <<"+">> \o digits
                 ELSE s

_normalize_phone(phone) ==
    LET s == Strip(phone)
    IN  IF s = <<>> THEN <<>>
        ELSE IF s[1] = "+" THEN s
        ELSE LET digits == SelectSeq(s, IsDigit)
             IN  IF Len(digits) = 10 THEN <<"+","1">> \o digits
                 ELSE IF Len(digits) = 11 /\ digits[1] = "1" THEN <<"+">> \o digits
                 ELSE s

(***************************************************************************)
(* tracks.py: the question bank                                            *)
(***************************************************************************)
T_Consulting == <<"C","o","n","s","u","l","t","i","n","g">>
T_SAT == <<"S","A","T">>
T_General == <<"G","e","n","e","r","a","l">>

\* The bank, restricted to two of its tracks and, in each, to the question
\* pick_sample_question returns (the first): no other id is ever opened.
QUESTIONS ==
    [t \in {T_Consulting, T_SAT} |->
        IF t = T_Consulting
        THEN << [id |-> <<"c","o","n","s","_","p","r","o","f","i","t","_","1">>,
                 choices |-> << <<"M","a","r","k","e","t"," ","s","i","z","i","n","g">>,
                                <<"P","E","S","T","L","E"," ","a","n","a","l","y","s","i","s">>,
                                <<"P","r","i","c","e"," ","e","l","a","s","t","i","c","i","t","y">>,
                                <<"C","o","s","t"," ","s","t","r","u","c","t","u","r","e"," ","(",
                                  "v","a","r","i","a","b","l","e"," ","v","s"," ","f","i","x","e","d",")">> >>,
                 answer |-> <<"C","o","s","t"," ","s","t","r","u","c","t","u","r","e"," ","(",
                              "v","a","r","i","a","b","l","e"," ","v","s"," ","f","i","x","e","d",")">>] >>
        ELSE << [id |-> <<"s","a","t","_","m","a","t","h","_","1">>,
                 choices |-> << <<"1">>, <<"2">>, <<"3">>, <<"4">> >>,
                 answer |-> <<"2">>] >>]

\* qs[0] if qs else None
pick_sample_question(track) ==
    IF track \in DOMAIN QUESTIONS /\ Len(QUESTIONS[track]) > 0
    THEN Some(QUESTIONS[track][1])
    ELSE None

\* The character U+00B2 (superscript two), written as one element of a text:
\* str.isdigit() is true of it, int() raises ValueError on it, \d does not
\* match it.
SuperscriptTwo == "SUP2"

\* user_up.isdigit()
IsDigitStr(user_up) ==
    /\ user_up # <<>>
    /\ \A i \in DOMAIN user_up : IsDigit(user_up[i]) \/ user_up[i] = SuperscriptTwo

\* int(user_up) is evaluated and raises ValueError: the reply is no letter of
\* a choice, isdigit() holds, and some character is not a decimal digit
IntRaises(choices, user_up) ==
    /\ \A i \in DOMAIN choices : ~(i <= Len(UpperAZ) /\ user_up = <<UpperAZ[i]>>)
    /\ IsDigitStr(user_up)
    /\ \E i \in DOMAIN user_up : ~IsDigit(user_up[i])

\* The choice a reply stands for: by letter, by 1-based index, by its text,
\* else the reply itself
UserChoice(choices, user_raw, user_up) ==
    LET letters == {i \in DOMAIN choices : i <= Len(UpperAZ) /\ user_up = <<UpperAZ[i]>>}
        isdigit == IsDigitStr(user_up)
        textual == {i \in DOMAIN choices : Upper(Strip(choices[i])) = user_up}
    IN  IF letters # {} THEN choices[CHOOSE i \in letters : TRUE]
        ELSE IF isdigit /\ 1 <= DigitsToNat(user_up) /\ DigitsToNat(user_up) <= Len(choices)
        THEN choices[DigitsToNat(user_up)]
        ELSE IF textual # {}
        THEN choices[CHOOSE i \in textual : \A j \in textual : i <= j]
        ELSE user_raw

\* The verdict for the question q, or "raised" (the ValueError of int())
GradeChoice(q, user_raw) ==
    IF IntRaises(q.choices, Upper(user_raw)) THEN "raised"
    ELSE IF Upper(Strip(q.answer)) = Upper(Strip(UserChoice(q.choices, user_raw, Upper(user_raw))))
    THEN "correct" ELSE "incorrect"

FindQuestion(qs, qid) == {i \in DOMAIN qs : qs[i].id = qid}

GradeIn(qs, qid, answer) ==
    IF FindQuestion(qs, qid) = {} THEN "error"
    ELSE GradeChoice(qs[FirstIndex(FindQuestion(qs, qid))], Strip(answer))

\* grade_answer: the verdict "correct" or "incorrect", "error" (a result
\* that carries the key "error": question not found), or "raised" (it raised)
grade_answer(track, qid, answer) ==
    GradeIn(IF track \in DOMAIN QUESTIONS THEN QUESTIONS[track] ELSE <<>>, qid, answer)

(***************************************************************************)
(* tracks.py: numbers.  A float is the exact rational [n, d], d > 0; the   *)
(* replies and ids of the model are decimals that binary floating point    *)
(* compares the same way.                                                  *)
(***************************************************************************)
RECURSIVE GCD(_, _)
GCD(a, b) == IF b = 0 THEN a ELSE GCD(b, a % b)

\* n/d in lowest terms (the model's integers are 32-bit wide)
Rat(n, d) ==
    LET g == GCD(Abs(n), d)
    IN  [n |-> n \div g, d |-> d \div g]
RatMul(a, b) == Rat(a.n * b.n, a.d * b.d)
RatAbs(a) == Rat(Abs(a.n), a.d)
RatSub(a, b) == Rat(a.n * b.d - b.n * a.d, a.d * b.d)
RatLeq(a, b) == a.n * b.d <= b.n * a.d
RatMax(a, b) == IF RatLeq(a, b) THEN b ELSE a

\* float(s) for the decimal literals [sign] digits [. digits] | [sign] . digits
\* (exponents, inf, nan and underscores are outside the model's alphabet).
IsDecimal(t) ==
    LET u == IF t # <<>> /\ t[1] \in {"+", "-"} THEN Tail(t) ELSE t
        dots == {i \in DOMAIN u : u[i] = "."}
    IN  /\ Cardinality(dots) <= 1
        /\ \A i \in DOMAIN u : IsDigit(u[i]) \/ u[i] = "."
        /\ \E i \in DOMAIN u : IsDigit(u[i])

DecimalValue(t) ==
    LET neg == t # <<>> /\ t[1] = "-"
        u == IF t # <<>> /\ t[1] \in {"+", "-"} THEN Tail(t) ELSE t
        dots == {i \in DOMAIN u : u[i] = "."}
        frac == IF dots = {} THEN 0 ELSE Len(u) - (CHOOSE i \in dots : TRUE)
        mant == DigitsToNat(SelectSeq(u, IsDigit))
    IN  Rat(IF neg THEN -mant ELSE mant, Pow10(frac))

\* The end of the maximal run of digits of s that starts at a
RunEnd(s, a) ==
    CHOOSE e \in a..Len(s) :
        /\ \A j \in a..e : IsDigit(s[j])
        /\ (e = Len(s) \/ ~IsDigit(s[e + 1]))

\* The match of -?\d+(?:\.\d+)? whose first digit is s[i0] and whose integer
\* part ends at s[e0]
NumberMatch(s, i0, e0) ==
    SubSeq(s,
           IF i0 > 1 /\ s[i0 - 1] = "-" THEN i0 - 1 ELSE i0,
           IF e0 + 2 <= Len(s) /\ s[e0 + 1] = "." /\ IsDigit(s[e0 + 2])
           THEN RunEnd(s, e0 + 2) ELSE e0)

NumberFrom(s, i0) == NumberMatch(s, i0, RunEnd(s, i0))

\* re.findall(r"-?\d+(?:\.\d+)?", s)[0], as an optional text
FirstNumberText(s) ==
    IF \A i \in DOMAIN s : ~IsDigit(s[i]) THEN None
    ELSE Some(NumberFrom(s, FirstIndex({i \in DOMAIN s : IsDigit(s[i])})))

EndsWith(s, c) == s # <<>> /\ s[Len(s)] = c
DropLast(s) == SubSeq(s, 1, Len(s) - 1)

\* float(s) * mult, or the first number found in s, or ValueError (None)
ParseScaled(s, m, mult) ==
    IF IsDecimal(Strip(s)) THEN Some(RatMul(DecimalValue(Strip(s)), mult))
    ELSE IF m = None THEN None
    ELSE Some(RatMul(DecimalValue(m[1]), mult))

\* The "k" suffix
ParseKilo(s, mult) ==
    ParseScaled(IF EndsWith(s, "k") THEN DropLast(s) ELSE s,
                FirstNumberText(IF EndsWith(s, "k") THEN DropLast(s) ELSE s),
                IF EndsWith(s, "k") THEN RatMul(mult, Rat(1000, 1)) ELSE mult)

\* The "%" suffix
ParsePercent(s) ==
    ParseKilo(IF EndsWith(s, "%") THEN DropLast(s) ELSE s,
              IF EndsWith(s, "%") THEN Rat(1, 100) ELSE Rat(1, 1))

\* A variant that keeps the commas
parse_number_KeepsCommas(ans) ==
    ParsePercent(Lower(Strip(ans)))

\* parse_number: an optional rational, None when it raises ValueError
parse_number(ans) ==
    ParsePercent(SelectSeq(Lower(Strip(ans)), LAMBDA c : c # ","))

K_gen_sub == <<"m","m","_","g","e","n","_","s","u","b">>
K_gen_pct == <<"m","m","_","g","e","n","_","p","c","t">>
K_gen_div == <<"m","m","_","g","e","n","_","d","i","v">>
K_cons_vtarget == <<"m","m","_","c","o","n","s","_","v","t","a","r","g","e","t">>
K_cons_breakeven == <<"m","m","_","c","o","n","s","_","b","r","e","a","k","e","v","e","n">>
K_cons_marginpct == <<"m","m","_","c","o","n","s","_","m","a","r","g","i","n","p","c","t">>
K_cons_pricemargin == <<"m","m","_","c","o","n","s","_","p","r","i","c","e","m","a","r","g","i","n">>
K_ib_irr == <<"m","m","_","i","b","_","i","r","r">>

\* ok(delta_abs, tolerance)
ok(delta_abs, tolerance) == RatLeq(delta_abs, tolerance)

Verdict(isOk) == IF isOk THEN "correct" ELSE "incorrect"

\* ans * (100 if abs(ans) <= 1.5 else 1), resp. with < 1.5
PctPoints(ans, strict) ==
    IF RatLeq(RatAbs(ans), Rat(3, 2)) /\ (~strict \/ RatAbs(ans) # Rat(3, 2))
    THEN RatMul(ans, Rat(100, 1)) ELSE ans

Near(x, e, tol) == ok(RatAbs(RatSub(x, e)), tol)

MathResult(isOk, expected) == [res |-> Verdict(isOk), expected |-> expected]

\* The branches of grade_math_q on the kind parts[0] of the id, for the
\* parsed answer ans
GradeByKind(ans, parts) ==
    LET kind == parts[1]
        f(i) == DecimalValue(parts[i])
    IN  IF kind = K_gen_sub
        THEN MathResult(Near(ans, f(4), Rat(0, 1)), f(4))
        ELSE IF kind = K_gen_pct
        THEN MathResult(Near(ans, f(4), RatMax(Rat(1, 2), RatMul(RatAbs(f(4)), Rat(2, 100)))),
                        f(4))
        ELSE IF kind = K_gen_div
        THEN MathResult(Near(ans, f(4), RatMax(RatMul(RatAbs(f(4)), Rat(2, 100)), Rat(1, 4))),
                        f(4))
        ELSE IF kind = K_cons_vtarget
        THEN MathResult(Near(ans, f(6), Rat(1, 2)), f(6))
        ELSE IF kind = K_cons_breakeven
        THEN MathResult(Near(ans, f(5), Rat(1, 2)), f(5))
        ELSE IF kind = K_cons_marginpct
        THEN MathResult(Near(PctPoints(ans, FALSE), f(4), Rat(1, 2)), f(4))
        ELSE IF kind = K_cons_pricemargin
        THEN MathResult(Near(ans, f(4), RatMax(RatMul(f(4), Rat(1, 100)), Rat(1, 2))), f(4))
        ELSE IF kind = K_ib_irr
        THEN MathResult(Near(PctPoints(ans, TRUE), f(5), f(6)), f(5))
        ELSE [res |-> "error", expected |-> Rat(0, 1)]

GradeParsed(a, parts) ==
    IF a = None THEN [res |-> "error", expected |-> Rat(0, 1)]
    ELSE GradeByKind(a[1], parts)

\* grade_math_q: [res, expected] with res "correct" | "incorrect" | "error"
\* (the result has the key "error": an unparseable reply or an unknown id).
grade_math_q(track, qid, answer_raw) ==
    GradeParsed(parse_number(answer_raw), SplitColon(qid))

(***************************************************************************)
(* tracks.py: math question generators.  random.* is a choice among the    *)
(* draws listed here.                                                      *)
(***************************************************************************)
Colon == <<":">>

\* str(x) of the float x = h/100 that round(..., 2) returns: "3.5", "3.0", "3.15"
FloatStr(h) ==
    LET ip == h \div 100
        fp == h % 100
    IN  NatToDigits(ip) \o <<".">> \o
        (IF fp % 10 = 0 THEN NatToDigits(fp \div 10)
         ELSE <<DigitChars[(fp \div 10) + 1], DigitChars[(fp % 10) + 1]>>)

\* The (a, b) and (p, n) that gen_general_math draws in the model.
GenSubDraws == {<<120, 20>>}
GenPctDraws == {<<10, 35>>}

gen_general_math ==
    {[qid |-> K_gen_sub \o Colon \o NatToDigits(d[1]) \o Colon \o NatToDigits(d[2])
                 \o Colon \o NatToDigits(d[1] - d[2])] : d \in GenSubDraws}
    \cup
    {[qid |-> K_gen_pct \o Colon \o NatToDigits(d[1]) \o Colon \o NatToDigits(d[2])
                 \o Colon \o FloatStr(d[2] * d[1])] : d \in GenPctDraws}

\* math.ceil(fixed / (price - var))
_breakeven_units(price, var, fixed) == (fixed + (price - var) - 1) \div (price - var)

\* The (price, var, fixed) that gen_consulting_context draws in the model
\* (its break-even branch).
ConsBreakevenDraws == {<<60, 10, 240000>>}

gen_consulting_context ==
    {[qid |-> K_cons_breakeven \o Colon \o NatToDigits(d[1]) \o Colon \o NatToDigits(d[2])
                 \o Colon \o NatToDigits(d[3]) \o Colon
                 \o NatToDigits(_breakeven_units(d[1], d[2], d[3]))] : d \in ConsBreakevenDraws}

\* A variant of the generators that yields no question
make_math_question_Fails(track) == {}

\* make_math_question: the set of questions it may return; {} is None.
\* ("Investment Banking" is not among the track names of the model.)
make_math_question(track) ==
    IF track = T_General THEN gen_general_math
    ELSE IF track = T_Consulting THEN gen_consulting_context
    ELSE {}

(***************************************************************************)
(* server.py: building questions                                           *)
(***************************************************************************)
\* A variant that composes for the default track whatever track is asked
_compose_question_text_Default(track) ==
    {[kind |-> "sample", track |-> T_Consulting, qid |-> QUESTIONS[T_Consulting][1].id]}

\* The payload returned with "Sorry, I couldn't generate a question right
\* now", when neither a sample nor a math question was made
NoQuestion == [kind |-> "none"]

\* _compose_question_text: the payloads it may return for the track.  The
\* last resort make_math_question("General") always makes a question, so
\* NoQuestion is returned only if the generators are replaced.
_compose_question_text(track) ==
    LET q == pick_sample_question(track)
    IN  IF q # None
        THEN {[kind |-> "sample", track |-> track, qid |-> q[1].id]}
        ELSE LET ms == IF make_math_question(track) # {}
                       THEN make_math_question(track)
                       ELSE make_math_question(T_General)
             IN  IF ms # {}
                 THEN {[kind |-> "math", qid |-> m.qid, track |-> track] : m \in ms}
                 ELSE {NoQuestion}

\* u.track or "Consulting"
TrackOrDefault(track) == IF track = <<>> THEN T_Consulting ELSE track

(***************************************************************************)
(* server.py: configuration, clock and time zones                          *)
(***************************************************************************)
TZ_NewYork == <<"A","m","e","r","i","c","a","/","N","e","w","_","Y","o","r","k">>
TZ_UTC == <<"U","T","C">>
TZ_Tokyo == <<"A","s","i","a","/","T","o","k","y","o">>
TZ_Bad == <<"M","a","r","s","/","P","h","o","b","o","s">>

DEFAULT_TZ == TZ_NewYork
\* The delivery window, in local hours of the scaled day.
WINDOW_START_HOUR == 1
WINDOW_END_HOUR == 2

\* pytz's zone table: the UTC offset, in hours of the scaled day.
ZoneOffsetHours ==
    [z \in {TZ_NewYork, TZ_UTC, TZ_Tokyo} |->
        IF z = TZ_UTC THEN 0 ELSE IF z = TZ_Tokyo THEN 1 ELSE -1]

\* pytz.timezone(z) does not raise
ValidZone(z) == z \in DOMAIN ZoneOffsetHours

\* _user_tzname: (user.timezone or DEFAULT_TZ).strip() or DEFAULT_TZ
_user_tzname(user) ==
    LET t == Strip(IF user.timezone = <<>> THEN DEFAULT_TZ ELSE user.timezone)
    IN  IF t = <<>> THEN DEFAULT_TZ ELSE t

\* _user_tz: the zone, as its offset from UTC in minutes
_user_tz(user) ==
    LET tzname == _user_tzname(user)
    IN  MinutesPerHour *
        (IF ValidZone(tzname) THEN ZoneOffsetHours[tzname] ELSE ZoneOffsetHours[DEFAULT_TZ])

\* datetime.now(tz), as local wall-clock minutes since the epoch
LocalNow(tz, t) == t + tz

\* _today_local_date_str: the local calendar day
_today_local_date_str(tz, t) == LocalNow(tz, t) \div DayLen

\* datetime.isoformat() of a UTC instant: <<day, minute of day>>
IsoFormat(utc) == <<utc \div DayLen, utc % DayLen>>

\* str <= str on two ISO strings
IsoLeq(a, b) == a[1] < b[1] \/ (a[1] = b[1] /\ a[2] <= b[2])

\* _now_utc_minute().isoformat()
_now_utc_minute(t) == IsoFormat(t)

\* slot.astimezone(pytz.UTC) for a local wall-clock instant of zone tz
AsTimezoneUTC(local, tz) == local - tz

(***************************************************************************)
(* server.py: random schedule per user                                     *)
(***************************************************************************)
RECURSIVE SortedSeq(_)
SortedSeq(S) ==
    IF S = {} THEN <<>>
    ELSE LET m == CHOOSE x \in S : \A y \in S : x <= y
         IN  <<m>> \o SortedSeq(S \ {m})

\* A variant that keeps the number as given
ClampPerDay_Identity(n) == n

\* max(1, min(3, int(n)))
ClampPerDay(n) == Max2(1, Min2(3, n))

\* today.replace(hour=WINDOW_START_HOUR, minute=0): local window start
WindowStart(tz, t) == _today_local_date_str(tz, t) * DayLen + WINDOW_START_HOUR * MinutesPerHour
WindowEnd(tz, t) == _today_local_date_str(tz, t) * DayLen + WINDOW_END_HOUR * MinutesPerHour
WindowSpan(tz, t) == Max2(0, WindowEnd(tz, t) - WindowStart(tz, t))

\* A variant that draws one minute past the window
Offsets_PastEnd(span) == 0..(span + 1)

\* random.randint(0, span)
Offsets(span) == 0..span

\* _rand_local_minutes: the sorted lists of local instants it may return
_rand_local_minutes(n, tz, t) ==
    LET k == ClampPerDay(n)
        today == WindowStart(tz, t)
        span == WindowSpan(tz, t)
    IN  IF span <= 0 THEN {<<today>>}
        ELSE {SortedSeq({today + o : o \in off}) :
                 off \in {c \in SUBSET Offsets(span) : Cardinality(c) = k}}

NoDate == -1

\* _ensure_todays_schedule: the values user.schedule may have afterwards
_ensure_todays_schedule(user, t) ==
    LET tz == _user_tz(user)
        today_local == _today_local_date_str(tz, t)
    IN  IF user.schedule.local_date # today_local
        THEN {[local_date |-> today_local,
               remaining_utc |-> [i \in DOMAIN slots |->
                                     IsoFormat(AsTimezoneUTC(slots[i], tz))]] :
                 slots \in _rand_local_minutes(user.per_day, tz, t)}
        ELSE {user.schedule}

\* A variant that returns the due slots and leaves them in the schedule
_pop_due_utc_KeepsDue(user, t) ==
    [due |-> SelectSeq(user.schedule.remaining_utc,
                       LAMBDA s : IsoLeq(s, _now_utc_minute(t))),
     schedule |-> user.schedule]

\* _pop_due_utc: [due, schedule] (the returned list and user.schedule afterwards)
_pop_due_utc(user, t) ==
    LET remaining == user.schedule.remaining_utc
        now_utc_iso == _now_utc_minute(t)
        due == SelectSeq(remaining, LAMBDA s : IsoLeq(s, now_utc_iso))
    IN  IF remaining = <<>> THEN [due |-> <<>>, schedule |-> user.schedule]
        ELSE IF due # <<>>
        THEN [due |-> due,
              schedule |-> [user.schedule EXCEPT !.remaining_utc =
                               SelectSeq(remaining, LAMBDA s : ~IsoLeq(s, now_utc_iso))]]
        ELSE [due |-> due, schedule |-> user.schedule]

(***************************************************************************)
(* db.py / server.py: user rows                                            *)
(***************************************************************************)
\* The phones (primary keys) of the model.
PhoneA == <<"+","1","5","5","5","1","2","3","0","0","0","1">>
PhoneB == <<"+","1","5","5","5","1","2","3","0","0","0","2">>
Phones == {PhoneA, PhoneB}

\* The row _ensure_user creates (name and the timestamps are write-only text
\* and are not modelled).
NewUser ==
    [track |-> T_Consulting,
     per_day |-> 1,
     timezone |-> DEFAULT_TZ,
     subscribed |-> TRUE,
     open |-> None,
     stats |-> [asked |-> 0, correct |-> 0, streak |-> 0],
     schedule |-> [local_date |-> NoDate, remaining_utc |-> <<>>]]

\* _get_user: session.get(User, phone)
_get_user(d, phone) == IF phone \in DOMAIN d THEN d[phone] ELSE None

\* A variant that inserts a fresh row whether or not one is stored
_ensure_user_Overwrites(d, phone) ==
    [d EXCEPT ![_normalize_phone(phone)] = Some(NewUser)]

\* _ensure_user: the table after the lookup-or-insert (and its commit)
_ensure_user(d, phone) ==
    LET key == _normalize_phone(phone)
    IN  IF _get_user(d, key) = None THEN [d EXCEPT ![key] = Some(NewUser)] ELSE d

\* _save: session.add(user); session.commit()
_save(d, phone, user) == [d EXCEPT ![phone] = Some(user)]

(***************************************************************************)
(* server.py: grading                                                      *)
(***************************************************************************)
\* A variant that keeps the streak on an incorrect answer
GradedStats_KeepsStreak(stats, correct) ==
    [asked |-> stats.asked + 1,
     correct |-> IF correct THEN stats.correct + 1 ELSE stats.correct,
     streak |-> IF correct THEN stats.streak + 1 ELSE stats.streak]

\* A variant that extends the streak on every verdict
GradedStats_StreakCountsAll(stats, correct) ==
    [asked |-> stats.asked + 1,
     correct |-> IF correct THEN stats.correct + 1 ELSE stats.correct,
     streak |-> stats.streak + 1]

\* The stats after a verdict
GradedStats(stats, correct) ==
    IF correct
    THEN [asked |-> stats.asked + 1, correct |-> stats.correct + 1,
          streak |-> stats.streak + 1]
    ELSE [asked |-> stats.asked + 1, correct |-> stats.correct, streak |-> 0]

\* user.open = None after a verdict
ClosedOpen == None

\* A variant that grades a payload of any other kind as a wrong answer
GradeOpen_NoUnknown(open_q, track, ans_text) ==
    IF open_q.kind = "sample" THEN grade_answer(track, open_q.qid, ans_text)
    ELSE IF open_q.kind = "math" THEN grade_math_q(track, open_q.qid, ans_text).res
    ELSE "incorrect"

\* The grader's verdict for the open payload: "error" (its result has the
\* key "error"), "correct", "incorrect", or "unknown" (unknown question type)
GradeOpen(open_q, track, ans_text) ==
    IF open_q.kind = "sample" THEN grade_answer(track, open_q.qid, ans_text)
    ELSE IF open_q.kind = "math" THEN grade_math_q(track, open_q.qid, ans_text).res
    ELSE "unknown"

\* A variant that looks the question up in the user's current track
OpenTrack_Current(open_q, user) == TrackOrDefault(user.track)

\* open_q.get("track") or user.track or "Consulting"
OpenTrack(open_q, user) ==
    IF "track" \in DOMAIN open_q /\ open_q.track # <<>>
    THEN open_q.track ELSE TrackOrDefault(user.track)

\* A variant that counts a verdict and leaves the question open
Graded_KeepsOpen(user, res) ==
    IF res \in {"correct", "incorrect"}
    THEN [user |-> [user EXCEPT !.stats = GradedStats(user.stats, res = "correct")],
          res |-> res]
    ELSE [user |-> user, res |-> res]

\* The stats and open question after the grader's result res
Graded(user, res) ==
    IF res \in {"correct", "incorrect"}
    THEN [user |-> [user EXCEPT !.stats = GradedStats(user.stats, res = "correct"),
                                !.open = ClosedOpen],
          res |-> res]
    ELSE [user |-> user, res |-> res]

\* _grade_open: [user, res]; res is "none" (it returned None) or as GradeOpen
_grade_open(user, raw_text) ==
    IF user.open = None THEN [user |-> user, res |-> "none"]
    ELSE Graded(user, GradeOpen(user.open[1], OpenTrack(user.open[1], user), Strip(raw_text)))

(***************************************************************************)
(* server.py: the Twilio webhook                                           *)
(***************************************************************************)
C_STOP == <<"S","T","O","P">>
C_STOPALL == <<"S","T","O","P","A","L","L">>
C_UNSUBSCRIBE == <<"U","N","S","U","B","S","C","R","I","B","E">>
C_CANCEL == <<"C","A","N","C","E","L">>
C_END == <<"E","N","D">>
C_QUIT == <<"Q","U","I","T">>
C_START == <<"S","T","A","R","T">>
C_HELP == <<"H","E","L","P">>
C_TRACK == <<"T","R","A","C","K">>
C_FREQ == <<"F","R","E","Q">>
C_TIMEZONE == <<"T","I","M","E","Z","O","N","E">>
C_NEXT == <<"N","E","X","T">>

StopWords == {C_STOP, C_STOPALL, C_UNSUBSCRIBE, C_CANCEL, C_END, C_QUIT}

\* A variant without the help branch
HelpWords_None == {}

\* cmd in {"HELP", "H", "?"}
HelpWords == {C_HELP, <<"H">>, <<"?">>}

\* A variant that does not upper-case the body
CommandOf_CaseSensitive(body) ==
    LET cmd_raw == FirstToken(body)
        cmd == SelectSeq(cmd_raw, IsUpperLetter)
    IN  IF cmd = <<>> /\ "?" \in Range(cmd_raw) THEN <<"?">> ELSE cmd

\* cmd: the first token of the upper-cased body, letters only ("?" if it has
\* no letter but a question mark)
CommandOf(body) ==
    LET cmd_raw == FirstToken(Upper(body))
        cmd == SelectSeq(cmd_raw, IsUpperLetter)
    IN  IF cmd = <<>> /\ "?" \in Range(cmd_raw) THEN <<"?">> ELSE cmd

\* {"local_date": _today_local_date_str(tz), "remaining_utc": []}
ResetSchedule(user, t) ==
    [local_date |-> _today_local_date_str(_user_tz(user), t), remaining_utc |-> <<>>]

\* u.schedule = {today, []}; _ensure_todays_schedule(u): the users it may leave
ForceSchedule(user, t) ==
    LET u1 == [user EXCEPT !.schedule = ResetSchedule(user, t)]
    IN  {[u1 EXCEPT !.schedule = sc] : sc \in _ensure_todays_schedule(u1, t)}

\* A variant that counts the question it opens as asked
OpenQuestion_CountsAsked(user, payload) ==
    [user EXCEPT !.open = Some(payload), !.stats.asked = @ + 1]

\* A variant that appends the payload to the open ones
OpenQuestion_Appends(user, payload) == [user EXCEPT !.open = @ \o <<payload>>]

\* text, payload = _compose_question_text(track); u.open = payload
OpenQuestion(user, payload) == [user EXCEPT !.open = Some(payload)]

\* return _twiml(...) with no _save(session, u) since the row was loaded
ReplyNoSave(u, res, sent) == [user |-> u, res |-> res, sent |-> sent, saved |-> FALSE]

\* A variant that returns after the assignments without committing them
Reply_Uncommitted(u, res, sent) == [user |-> u, res |-> res, sent |-> sent, saved |-> FALSE]

\* ...; _save(session, u); return _twiml(...): user is the row in memory,
\* saved tells that the session committed it before the return
Reply(u, res, sent) == [user |-> u, res |-> res, sent |-> sent, saved |-> TRUE]

\* "Otherwise: try grading if there's an open question", else the fallback.
\* A result of _grade_open is followed by _save; the fallback, and a grader
\* that raised, are not.
GradeOrFallback(user, g) ==
    IF g.res = "none" THEN ReplyNoSave(user, "fallback", <<>>)
    ELSE IF g.res = "raised" THEN ReplyNoSave(g.user, g.res, <<>>)
    ELSE Reply(g.user, g.res, <<>>)

\* A variant that accepts every name
KnownTrack_Any(choice) == TRUE

\* "choice not in QUESTIONS", negated
KnownTrack(choice) == choice \in DOMAIN QUESTIONS

\* The branches of sms on cmd, for the stripped body
SmsBranch(user, body, cmd, t) ==
    IF cmd \in StopWords
    THEN {Reply([user EXCEPT !.subscribed = FALSE], "unsubscribed", <<>>)}
    ELSE IF cmd = C_START
    THEN {Reply([user EXCEPT !.subscribed = TRUE], "resubscribed", <<>>)}
    ELSE IF cmd \in HelpWords
    THEN {ReplyNoSave(user, "help", <<>>)}
    ELSE IF cmd = C_TRACK
    THEN IF ~KnownTrack(Strip(AfterFirstSpace(body)))
         THEN {ReplyNoSave(user, "track_unknown", <<>>)}
         ELSE {Reply(OpenQuestion([user EXCEPT !.track = Strip(AfterFirstSpace(body))], pl),
                     "track_changed", <<pl>>) :
                  pl \in _compose_question_text(Strip(AfterFirstSpace(body)))}
    ELSE IF cmd = C_FREQ
    THEN IF SelectSeq(AfterFirstSpace(body), IsDigit) = <<>>
         THEN {ReplyNoSave(user, "freq_usage", <<>>)}
         ELSE {Reply(u2, "freq_updated", <<>>) :
                  u2 \in ForceSchedule(
                           [user EXCEPT !.per_day =
                               ClampPerDay(DigitsToNat(SelectSeq(AfterFirstSpace(body), IsDigit)))],
                           t)}
    ELSE IF cmd = C_TIMEZONE
    THEN IF ~ValidZone(Strip(AfterFirstSpace(body)))
         THEN {ReplyNoSave(user, "tz_invalid", <<>>)}
         ELSE {Reply(u2, "tz_set", <<>>) :
                  u2 \in ForceSchedule(
                           [user EXCEPT !.timezone = Strip(AfterFirstSpace(body))], t)}
    ELSE IF cmd = C_NEXT \/ body = <<>>
    THEN {Reply(OpenQuestion(user, pl), "next", <<pl>>) :
             pl \in _compose_question_text(TrackOrDefault(user.track))}
    ELSE {GradeOrFallback(user, _grade_open(user, body))}

\* sms (POST), after _ensure_user: the possible [user, res, sent, saved],
\* where user is the row in memory at the return, saved tells whether the
\* branch committed it, res names the branch taken and sent lists the
\* question payloads returned in the reply.
sms(user, rawBody, t) == SmsBranch(user, Strip(rawBody), CommandOf(Strip(rawBody)), t)

(***************************************************************************)
(* server.py: public API (signup, me, update)                              *)
(***************************************************************************)
\* A variant that stores the number as given
SetPerDay_Unclamped(user, pd) ==
    IF pd.int_ok THEN [user EXCEPT !.per_day = pd.v] ELSE user

\* int(data["per_day"]) raised, or clamped into [1, 3]
SetPerDay(user, pd) ==
    IF pd.int_ok THEN [user EXCEPT !.per_day = Max2(1, Min2(3, pd.v))] ELSE user

\* A variant that starts the stats afresh when a track is submitted
ApplyPrefs_ResetsStats(user, data) ==
    LET u1 == IF data.track # None
              THEN [user EXCEPT !.track = data.track[1], !.stats = NewUser.stats]
              ELSE user
        u2 == IF data.timezone # None THEN [u1 EXCEPT !.timezone = data.timezone[1]] ELSE u1
    IN  IF data.per_day # None THEN SetPerDay(u2, data.per_day[1]) ELSE u2

\* The "if data.get(k) is not None: u.k = data[k]" lines of signup and update
ApplyPrefs(user, data) ==
    LET u1 == IF data.track # None THEN [user EXCEPT !.track = data.track[1]] ELSE user
        u2 == IF data.timezone # None THEN [u1 EXCEPT !.timezone = data.timezone[1]] ELSE u1
    IN  IF data.per_day # None THEN SetPerDay(u2, data.per_day[1]) ELSE u2

\* signup, for a phone that normalizes to a non-empty key: the possible
\* [db, res, sent].  Both saves precede send_sms, so the table is the same
\* whether or not the transport raises.
signup(d, phone, data, t, sendOk) ==
    LET d1 == _ensure_user(d, phone)
        key == _normalize_phone(phone)
        u1 == [ApplyPrefs(d1[key][1], data) EXCEPT !.subscribed = TRUE]
    IN  {[db |-> _save(_save(d1, key, u2), key, OpenQuestion(u2, pl)),
          res |-> IF sendOk THEN "ok" ELSE "transport_error",
          sent |-> IF sendOk THEN <<pl>> ELSE <<>>] :
            <<u2, pl>> \in {<<u, q>> \in ForceSchedule(u1, t) \X
                               _compose_question_text(TrackOrDefault(u1.track)) : TRUE}}

\* update, for a stored user: the row saved
update(user, data) == ApplyPrefs(user, data)

(***************************************************************************)
(* server.py: the scheduler tick                                           *)
(***************************************************************************)
\* The inner "for _ in due" loop over k due slots: the possible
\* [user, sent, raised], raised when send_sms raises at some slot.
RECURSIVE Dispatch(_, _, _)
Dispatch(user, k, canRaise) ==
    IF k = 0 THEN {[user |-> user, sent |-> <<>>, raised |-> FALSE]}
    ELSE UNION {
        LET u1 == OpenQuestion(user, pl)
        IN  {[user |-> r.user, sent |-> <<pl>> \o r.sent, raised |-> r.raised] :
                r \in Dispatch(u1, k - 1, canRaise)}
            \cup (IF canRaise THEN {[user |-> u1, sent |-> <<>>, raised |-> TRUE]} ELSE {})
        : pl \in _compose_question_text(TrackOrDefault(user.track))}

\* One iteration of "for u in users", up to the save: [user, due, sent, raised]
TickUser(user, t, canRaise) ==
    UNION {
        LET u1 == [user EXCEPT !.schedule = sc]
            pop == _pop_due_utc(u1, t)
            u2 == [u1 EXCEPT !.schedule = pop.schedule]
        IN  {[user |-> r.user, due |-> Len(pop.due), sent |-> r.sent, raised |-> r.raised] :
                r \in Dispatch(u2, Len(pop.due), canRaise)}
        : sc \in _ensure_todays_schedule(user, t)}

\* _minute_tick over the users in the order the query returned them.  mem is
\* the session (rows as mutated in memory), com the table as committed;
\* a commit flushes every dirty row of the session.  The possible
\* [db, sent, res, at, rest]: the table when the session closes, what was
\* handed to the transport and delivered, "ok" or "aborted" (send_sms raised),
\* the phone of the user whose send raised (<<>> if none did) and the users
\* after that one in the iteration.
RECURSIVE _minute_tick(_, _, _, _, _, _, _)
_minute_tick(order, mem, com, changed_any, sent, t, canRaise) ==
    IF order = <<>> THEN {[db |-> com, sent |-> sent, res |-> "ok", at |-> <<>>, rest |-> <<>>]}
    ELSE UNION {
        LET p == Head(order)
            sent1 == [sent EXCEPT ![p] = @ \o r.sent]
            mem1 == [mem EXCEPT ![p] = Some(r.user)]
            changed1 == changed_any \/ r.due > 0
        IN  IF r.raised
            THEN {[db |-> com, sent |-> sent1, res |-> "aborted", at |-> p,
                  rest |-> Tail(order)]}
            ELSE _minute_tick(Tail(order), mem1, IF changed1 THEN mem1 ELSE com,
                              changed1, sent1, t, canRaise)
        : r \in TickUser(mem[Head(order)][1], t, canRaise)}

\* A variant of the query without its filter
SubscribedUsers_All(d) == {p \in DOMAIN d : d[p] # None}

\* session.query(User).filter(User.subscribed.is_(True)).all(): the rows, in
\* any order (the query has no ORDER BY)
SubscribedUsers(d) == {p \in DOMAIN d : d[p] # None /\ d[p][1].subscribed}

QueryOrders(d) ==
    LET S == SubscribedUsers(d)
    IN  {o \in [1..Cardinality(S) -> S] : \A i, j \in DOMAIN o : i # j => o[i] # o[j]}

(***************************************************************************)
(* The state machine                                                       *)
(***************************************************************************)
NoSent == [p \in Phones |-> <<>>]
SentTo(p, sent) == [NoSent EXCEPT ![p] = sent]

\* What the last operation was: its name, the normalized phone it was for,
\* its input (the preferences of the JSON body of signup and update, the Body
\* of an inbound message; for an aborted tick, the users it had not
\* reached), the branch it took and the question payloads it delivered to
\* each phone.  For an inbound message mem is the row the handler held in
\* memory when it returned.
Event(op, phone, res, sent) ==
    [op |-> op, phone |-> phone, data |-> None, res |-> res, sent |-> sent,
     mem |-> None]

\* The clock starts at local midnight of the default zone.
StartTime == DayLen - _user_tz(NewUser)

\* _ensure_todays_schedule is not running.  While it runs, sg holds its locals:
\* the row it was called with, the time of the call, the set chosen of
\* _rand_local_minutes, and at the end the user.schedule it leaves in memory.
SgIdle ==
    [pc |-> "idle", user |-> None, t |-> 0, chosen |-> {},
     schedule |-> NewUser.schedule, fresh |-> FALSE]

Init ==
    /\ db = [p \in Phones |-> None]
    /\ now = StartTime
    /\ ev = Event("init", <<>>, "ok", NoSent)
    /\ stopped = {}
    /\ sg = SgIdle

\* The wall clock moves on by a minute.
AdvanceClock ==
    /\ now < StartTime + Horizon
    /\ now' = now + 1
    /\ ev' = Event("clock", <<>>, "ok", NoSent)
    /\ UNCHANGED <<db, stopped, sg>>

\* A variant that files a request without a phone under a fixed number
Signup_DefaultPhone(phone, data, sendOk) ==
    LET key == _normalize_phone(phone)
        filed == IF key = <<>> THEN PhoneB ELSE phone
    IN  /\ \E o \in signup(db, filed, data, now, sendOk) :
                /\ db' = o.db
                /\ ev' = [Event("signup", key, o.res, SentTo(_normalize_phone(filed), o.sent))
                             EXCEPT !.data = Some(data)]
        /\ UNCHANGED <<now, stopped, sg>>

\* POST /signup
Signup(phone, data, sendOk) ==
    LET key == _normalize_phone(phone)
    IN  /\ IF key = <<>>
           THEN /\ db' = db
                /\ ev' = Event("signup", key, "phone_required", NoSent)
           ELSE \E o \in signup(db, phone, data, now, sendOk) :
                /\ db' = o.db
                /\ ev' = [Event("signup", key, o.res, SentTo(key, o.sent))
                             EXCEPT !.data = Some(data)]
        /\ UNCHANGED <<now, stopped, sg>>

\* GET /me
Me(phone) ==
    LET key == _normalize_phone(phone)
    IN  /\ ev' = Event("me", key,
                       IF key = <<>> THEN "phone_required"
                       ELSE IF _get_user(db, key) = None THEN "not_found" ELSE "found",
                       NoSent)
        /\ UNCHANGED <<db, now, stopped, sg>>

\* A variant that creates the row it does not find
Update_Creates(phone, data) ==
    LET key == _normalize_phone(phone)
    IN  /\ IF key = <<>>
           THEN db' = db /\ ev' = Event("update", key, "phone_required", NoSent)
           ELSE /\ db' = _save(db, key, update(_ensure_user(db, phone)[key][1], data))
                /\ ev' = [Event("update", key, "ok", NoSent) EXCEPT !.data = Some(data)]
        /\ UNCHANGED <<now, stopped, sg>>

\* POST /update
Update(phone, data) ==
    LET key == _normalize_phone(phone)
    IN  /\ IF key = <<>>
           THEN db' = db /\ ev' = Event("update", key, "phone_required", NoSent)
           ELSE IF _get_user(db, key) = None
           THEN db' = db /\ ev' = Event("update", key, "not_found", NoSent)
           ELSE /\ db' = _save(db, key, update(db[key][1], data))
                /\ ev' = [Event("update", key, "ok", NoSent) EXCEPT !.data = Some(data)]
        /\ UNCHANGED <<now, stopped, sg>>

\* POST /sms.  The stored row is the one of the branch's last commit, or the
\* one _ensure_user loaded or committed if the branch did not save; the event
\* keeps the row the handler held in memory when it returned.  When the grader
\* raised (res "raised") the handler ends with the exception before any save.
Sms(from, rawBody) ==
    LET key == _normalize_phone(from)
        d1 == _ensure_user(db, from)
    IN  /\ \E o \in sms(d1[key][1], rawBody, now) :
            /\ o.user.stats.asked <= MaxAsked
            /\ db' = IF o.saved THEN _save(d1, key, o.user) ELSE d1
            /\ ev' = [Event("sms", key, o.res, SentTo(key, o.sent))
                         EXCEPT !.data = Some(rawBody), !.mem = Some(o.user)]
            /\ stopped' = IF o.res = "unsubscribed" THEN stopped \cup {key}
                          ELSE IF o.res = "resubscribed" THEN stopped \ {key}
                          ELSE stopped
        /\ UNCHANGED <<now, sg>>

\* _pop_due_utc(u) is called twice in a row on the stored row of phone, at
\* the same minute; the event records the two lists returned.
PopTwice(phone) ==
    /\ db[phone] # None
    /\ LET r1 == _pop_due_utc(db[phone][1], now)
           u1 == [db[phone][1] EXCEPT !.schedule = r1.schedule]
           r2 == _pop_due_utc(u1, now)
       IN  /\ db' = _save(db, phone, [u1 EXCEPT !.schedule = r2.schedule])
           /\ ev' = [Event("pop", phone, "ok", NoSent) EXCEPT !.data = <<r1.due, r2.due>>]
    /\ UNCHANGED <<now, stopped, sg>>

\* One run of the scheduler job
Tick(canRaise) ==
    /\ \E order \in QueryOrders(db) :
       \E o \in _minute_tick(order, db, db, FALSE, NoSent, now, canRaise) :
            /\ db' = o.db
            /\ ev' = [Event("tick", o.at, o.res, o.sent) EXCEPT !.data = o.rest]
    /\ UNCHANGED <<now, stopped, sg>>

\* _ensure_todays_schedule(user) is called on the stored row of phone: the
\* date test, and _rand_local_minutes up to its loop
EnsureBegin(phone) ==
    /\ sg.pc = "idle"
    /\ db[phone] # None
    /\ LET user == db[phone][1]
           tz == _user_tz(user)
       IN  sg' = IF user.schedule.local_date = _today_local_date_str(tz, now)
                 THEN [SgIdle EXCEPT !.pc = "done", !.user = Some(user), !.t = now,
                                     !.schedule = user.schedule]
                 ELSE IF WindowSpan(tz, now) <= 0
                 THEN [SgIdle EXCEPT !.pc = "sorted", !.user = Some(user), !.t = now,
                                     !.chosen = {WindowStart(tz, now)}]
                 ELSE [SgIdle EXCEPT !.pc = "loop", !.user = Some(user), !.t = now]
    /\ ev' = Event("ensure", phone, "begin", NoSent)
    /\ UNCHANGED <<db, now, stopped>>

\* One iteration of "while len(chosen) < n": a draw, added to the set
RandDraw(offset) ==
    /\ sg.pc = "loop"
    /\ Cardinality(sg.chosen) < ClampPerDay(ClampPerDay(sg.user[1].per_day))
    /\ offset \in Offsets(WindowSpan(_user_tz(sg.user[1]), sg.t))
    /\ sg' = [sg EXCEPT !.chosen = @ \cup {WindowStart(_user_tz(sg.user[1]), sg.t) + offset}]
    /\ ev' = Event("ensure", ev.phone, "draw", NoSent)
    /\ UNCHANGED <<db, now, stopped>>

\* The loop ends
RandSorted ==
    /\ sg.pc = "loop"
    /\ Cardinality(sg.chosen) >= ClampPerDay(ClampPerDay(sg.user[1].per_day))
    /\ sg' = [sg EXCEPT !.pc = "sorted"]
    /\ ev' = Event("ensure", ev.phone, "sorted", NoSent)
    /\ UNCHANGED <<db, now, stopped>>

\* return sorted(list(chosen)), and the assignment of user.schedule
EnsureEnd ==
    /\ sg.pc = "sorted"
    /\ LET tz == _user_tz(sg.user[1])
           local_slots == SortedSeq(sg.chosen)
       IN  sg' = [sg EXCEPT !.pc = "done", !.fresh = TRUE,
                            !.schedule =
                                [local_date |-> _today_local_date_str(tz, sg.t),
                                 remaining_utc |->
                                     [i \in DOMAIN local_slots |->
                                         IsoFormat(AsTimezoneUTC(local_slots[i], tz))]]]
    /\ ev' = Event("ensure", ev.phone, "end", NoSent)
    /\ UNCHANGED <<db, now, stopped>>

\* The caller goes on with the row
EnsureReturn ==
    /\ sg.pc = "done"
    /\ sg' = SgIdle
    /\ ev' = Event("ensure", ev.phone, "returned", NoSent)
    /\ UNCHANGED <<db, now, stopped>>

(***************************************************************************)
(* Inputs                                                                  *)
(***************************************************************************)
Sp == <<" ">>

\* Raw phone strings: blank ones, and three spellings of PhoneA.
RawBlank == {<<>>, Sp}
RawA10 == <<"5","5","5","1","2","3","0","0","0","1">>
RawA11 == <<"1"," ","(","5","5","5",")"," ","1","2","3","-","0","0","0","1">>

NoData == [track |-> None, timezone |-> None, per_day |-> None]
IntArg(v) == [int_ok |-> TRUE, v |-> v]
BadArg == [int_ok |-> FALSE, v |-> 0]

\* JSON bodies of signup and update: no field, one field, or all three.
PrefData ==
    {NoData}
    \cup {[NoData EXCEPT !.track = Some(x)] : x \in {T_Consulting, T_SAT, T_General}}
    \cup {[NoData EXCEPT !.timezone = Some(z)] : z \in {TZ_UTC, TZ_NewYork, TZ_Bad}}
    \cup {[NoData EXCEPT !.per_day = Some(n)] : n \in {IntArg(0), IntArg(2), IntArg(5), BadArg}}
    \cup {[track |-> Some(T_SAT), timezone |-> Some(TZ_UTC), per_day |-> Some(IntArg(3))]}

SignupRequests(A, rawA) ==
    {[phone |-> r, data |-> NoData] : r \in RawBlank \cup rawA}
    \cup {[phone |-> a, data |-> x] : a \in A, x \in PrefData}

\* Replies to questions: choices by letter, text, numbers, and the one
\* character U+00B2.
ReplyBodies ==
    { <<"D">>, <<"b">>, <<"a","b","c">>, <<"1","0","0">>, <<"3",".","5">>, <<"9","9">>,
      <<SuperscriptTwo>> }

(***************************************************************************)
(* Specification of the conversation: one user, every command that opens   *)
(* or grades a question, signup and profile update of the track; the clock *)
(* stands still.                                                           *)
(***************************************************************************)
TrackData == {d \in PrefData : d.timezone = None /\ d.per_day = None}

ConversationBodies ==
    { <<"S","t","o","p">>, Lower(C_START), <<"?">>,
      C_TRACK \o Sp \o T_SAT, C_TRACK \o Sp \o T_Consulting,
      C_TRACK \o Sp \o <<"C","h","e","s","s">>,
      Lower(C_NEXT), <<>> } \cup ReplyBodies

NextConversation ==
    \/ \E r \in SignupRequests({PhoneA}, {RawA10}), sendOk \in BOOLEAN :
          /\ r.data \in TrackData
          /\ Signup(r.phone, r.data, sendOk)
    \/ \E data \in TrackData : Update(PhoneA, data)
    \/ \E body \in ConversationBodies : Sms(PhoneA, body)

SpecConversation == Init /\ [][NextConversation]_vars

(***************************************************************************)
(* Specification of the delivery: one user, the clock, the scheduler tick  *)
(* with a transport that may raise, signup, and the commands that touch    *)
(* the subscription, the schedule or the open question.                    *)
(***************************************************************************)
DeliveryData ==
    {d \in PrefData : d.track \in {None, Some(T_General)} /\ d.timezone # Some(TZ_Bad)}

DeliveryBodies ==
    { C_QUIT, C_START,
      C_TRACK \o Sp \o T_Consulting,
      C_FREQ \o Sp \o <<"2">>, C_FREQ \o Sp \o <<"9">>, C_FREQ,
      C_TIMEZONE \o Sp \o TZ_UTC, C_TIMEZONE \o Sp \o TZ_NewYork, C_TIMEZONE \o Sp \o TZ_Bad,
      C_NEXT }

NextDelivery ==
    \/ AdvanceClock
    \/ Tick(TRUE)
    \/ \E data \in DeliveryData, sendOk \in BOOLEAN : Signup(PhoneA, data, sendOk)
    \/ \E body \in DeliveryBodies : Sms(PhoneA, body)

SpecDelivery == Init /\ [][NextDelivery]_vars

(***************************************************************************)
(* Specification of the profile calls: one phone signs up, the profile is  *)
(* fetched and updated for that phone, for a phone that never signed up    *)
(* and for a blank phone.                                                  *)
(***************************************************************************)
ProfilePhones == {PhoneA, PhoneB, Sp}

NextProfile ==
    \/ \E sendOk \in BOOLEAN : Signup(PhoneA, NoData, sendOk)
    \/ \E p \in ProfilePhones : Me(p)
    \/ \E p \in ProfilePhones, data \in PrefData : Update(p, data)

SpecProfile == Init /\ [][NextProfile]_vars

(***************************************************************************)
(* Specification of the frequency preference: one phone sets per_day by    *)
(* signup, by profile update and by the FREQ command, with numbers below,  *)
(* in and above the range and with values that are no number.              *)
(***************************************************************************)
PerDayData == {d \in PrefData : d.per_day # None} \cup {NoData}

PerDayBodies ==
    { C_FREQ \o Sp \o <<"0">>, C_FREQ \o Sp \o <<"2">>, C_FREQ \o Sp \o <<"9">>,
      Lower(C_FREQ) \o Sp \o <<"-","1","2">>, C_FREQ, C_FREQ \o Sp \o <<"a","l","l">>,
      C_NEXT, C_QUIT }

NextPerDay ==
    \/ \E data \in PerDayData, sendOk \in BOOLEAN : Signup(PhoneA, data, sendOk)
    \/ \E data \in PerDayData : Update(PhoneA, data)
    \/ \E body \in PerDayBodies : Sms(PhoneA, body)

SpecPerDay == Init /\ [][NextPerDay]_vars

(***************************************************************************)
(* Specification of the due-slot pop: one user whose stored schedule holds *)
(* up to three instants, in ascending order as _ensure_todays_schedule     *)
(* stores them, before, at and after the first minute; the pop is called   *)
(* twice per minute and the clock advances.                                *)
(***************************************************************************)
PopInstants == (StartTime - 1)..(StartTime + Horizon)

PopSchedules ==
    {[local_date |-> _today_local_date_str(_user_tz(NewUser), StartTime),
      remaining_utc |-> [i \in DOMAIN SortedSeq(S) |-> IsoFormat(SortedSeq(S)[i])]] :
        S \in {X \in SUBSET PopInstants : Cardinality(X) <= 3}}

InitPop ==
    /\ \E sc \in PopSchedules :
          db = [p \in Phones |-> IF p = PhoneA THEN Some([NewUser EXCEPT !.schedule = sc])
                                 ELSE None]
    /\ now = StartTime
    /\ ev = Event("init", <<>>, "ok", NoSent)
    /\ stopped = {}
    /\ sg = SgIdle

NextPop ==
    \/ AdvanceClock
    \/ PopTwice(PhoneA)

SpecPop == InitPop /\ [][NextPop]_vars

(***************************************************************************)
(* Specification of phone normalization: the profile is fetched under      *)
(* every spelling built from a prefix, a core and a suffix: with and       *)
(* without a plus sign, with 9, 10, 11 and 12 digits, with punctuation,    *)
(* letters and blanks.                                                     *)
(***************************************************************************)
PhonePrefixes == { <<>>, Sp, <<"+">>, <<"1">>, <<"(">>, <<"+"," ">>, <<"0","0">> }

PhoneCores ==
    { <<>>, RawA10, SubSeq(RawA10, 1, 9), RawA11, <<"2">> \o RawA10,
      <<"5","5","5","-","1","2","3","-","0","0","0","1">>, <<"a","b">>, <<"+">> }

PhoneSuffixes == { <<>>, Sp, <<"5">>, <<"x">> }

RawPhones == {a \o b \o c : a \in PhonePrefixes, b \in PhoneCores, c \in PhoneSuffixes}

NextNormalize == \E raw \in RawPhones : Me(raw)

SpecNormalize == Init /\ [][NextNormalize]_vars

(***************************************************************************)
(* Specification of the counters: one user answers sample and math         *)
(* questions, asks for new ones, signs up again and changes the track,     *)
(* while the clock runs and the scheduler dispatches.                      *)
(***************************************************************************)
CountersData == {NoData, [NoData EXCEPT !.track = Some(T_General)]}

CountersBodies == { C_NEXT, <<"D">>, <<"b">>, <<"1","0","0">> }

NextCounters ==
    \/ AdvanceClock
    \/ Tick(TRUE)
    \/ \E data \in CountersData, sendOk \in BOOLEAN : Signup(PhoneA, data, sendOk)
    \/ \E data \in CountersData : Update(PhoneA, data)
    \/ \E body \in CountersBodies : Sms(PhoneA, body)

SpecCounters == Init /\ [][NextCounters]_vars

(***************************************************************************)
(* Specification of numeric grading: a user whose open question is a unit  *)
(* count (break-even users, target-profit units) with an integer expected  *)
(* value replies with that value and its neighbours in every accepted      *)
(* spelling.  A reply is listed with ten times the number it states.       *)
(***************************************************************************)
UnitQid(kind, params, units) ==
    kind \o Colon \o params \o Colon \o NatToDigits(units)

\* The ids of the questions, with their expected value E
UnitQuestions ==
    { [qid |-> UnitQid(K_cons_breakeven, <<"6","0",":","4","8",":","6","0","0","0","0","0">>,
                       50000),
       E |-> 50000] }
    \cup { [qid |-> m.qid, E |-> _breakeven_units(d[1], d[2], d[3])] :
             m \in gen_consulting_context, d \in ConsBreakevenDraws }
    \cup { [qid |-> UnitQid(K_cons_vtarget,
                            <<"1","2","0",":","1","0","0",":","6","0","0","0","0","0",":",
                              "3","0","0","0","0","0">>, 45000),
            E |-> 45000] }

\* "50,000": the digits with a thousands separator
WithComma(n) ==
    NatToDigits(n \div 1000) \o <<",">> \o SubSeq(NatToDigits(1000 + (n % 1000)), 2, 4)

UnitReplies(E) ==
    { [body |-> NatToDigits(E), num |-> Some(10 * E)],
      [body |-> WithComma(E), num |-> Some(10 * E)],
      [body |-> WithComma(E) \o Sp \o <<"u","n","i","t","s">>, num |-> Some(10 * E)],
      [body |-> Sp \o NatToDigits(E) \o Sp, num |-> Some(10 * E)],
      [body |-> <<"a","b","o","u","t">> \o Sp \o NatToDigits(E), num |-> Some(10 * E)],
      [body |-> NatToDigits(E) \o <<"0","0","%">>, num |-> Some(10 * E)],
      [body |-> NatToDigits(E - 1000), num |-> Some(10 * (E - 1000))],
      [body |-> NatToDigits(E) \o <<".","5">>, num |-> Some(10 * E + 5)],
      [body |-> NatToDigits(E) \o <<".","6">>, num |-> Some(10 * E + 6)],
      [body |-> NatToDigits(E - 1) \o <<".","5">>, num |-> Some(10 * E - 5)],
      [body |-> WithComma(E - 1) \o <<".","4">>, num |-> Some(10 * E - 6)],
      [body |-> <<"-">> \o NatToDigits(E), num |-> Some(-10 * E)],
      [body |-> <<"5","0","K">>, num |-> Some(500000)],
      [body |-> <<"a","b","c">>, num |-> None] }

UnitReplyTable == UNION {UnitReplies(m.E) : m \in UnitQuestions}

InitUnits ==
    /\ \E m \in UnitQuestions :
          db = [p \in Phones |->
                  IF p = PhoneA
                  THEN Some([NewUser EXCEPT
                               !.open = Some([kind |-> "math", qid |-> m.qid,
                                              track |-> T_Consulting])])
                  ELSE None]
    /\ now = StartTime
    /\ ev = Event("init", <<>>, "ok", NoSent)
    /\ stopped = {}
    /\ sg = SgIdle

NextUnits == \E r \in UnitReplyTable : Sms(PhoneA, r.body)

SpecUnits == InitUnits /\ [][NextUnits]_vars

(***************************************************************************)
(* Specification of the scheduler over two users: each is created by an    *)
(* inbound message and may raise its frequency, the clock runs over the    *)
(* delivery windows of two days, and the transport may raise in any send.  *)
(***************************************************************************)
TwoUsersBodies == { C_NEXT, C_FREQ \o Sp \o <<"2">> }

NextTwoUsers ==
    \/ AdvanceClock
    \/ Tick(TRUE)
    \/ \E p \in Phones, body \in TwoUsersBodies : Sms(p, body)

SpecTwoUsers == Init /\ [][NextTwoUsers]_vars

(***************************************************************************)
(* Specification of the public API: signup under every spelling of the      *)
(* phone and every preference, the profile lookup, and replies that build   *)
(* up stats between two signups.                                            *)
(***************************************************************************)
ApiSignups == SignupRequests({PhoneA}, {RawA10, RawA11})

ApiBodies == { <<"D">>, <<"b">> }

NextApi ==
    \/ \E r \in ApiSignups, sendOk \in BOOLEAN : Signup(r.phone, r.data, sendOk)
    \/ \E phone \in {PhoneA, PhoneB, Sp} : Me(phone)
    \/ \E body \in ApiBodies : Sms(PhoneA, body)

SpecApi == Init /\ [][NextApi]_vars

(***************************************************************************)
(* Specification of schedule generation: a user whose preferences are set   *)
(* through update and FREQ, the clock, and _ensure_todays_schedule run      *)
(* draw by draw on the stored row.                                          *)
(***************************************************************************)
ScheduleData == {d \in PrefData : d.track = None}

ScheduleBodies == { <<"?">>, C_FREQ \o Sp \o <<"3">> }

NextSchedule ==
    \/ sg.pc = "idle" /\ AdvanceClock
    \/ sg.pc = "idle" /\ \E body \in ScheduleBodies : Sms(PhoneA, body)
    \/ sg.pc = "idle" /\ \E data \in ScheduleData : Update(PhoneA, data)
    \/ EnsureBegin(PhoneA)
    \/ \E offset \in 0..(DayLen + 1) : RandDraw(offset)
    \/ RandSorted
    \/ EnsureEnd
    \/ EnsureReturn

SpecSchedule == Init /\ [][NextSchedule]_vars

(***************************************************************************)
(* Properties                                                              *)
(***************************************************************************)
\* The last payload of a non-empty list
LastOf(q) == q[Len(q)]

\* The UTC instant an ISO string <<day, minute of day>> denotes
InstantOf(iso) == iso[1] * DayLen + iso[2]

\* The row stored for phone p is u's: p has a row
HasUser(d, p) == d[p] # None

C2_VerdictClosesErrorKeeps ==
    [][\A p \in Phones :
          (ev'.op = "sms" /\ ev'.phone = p /\ HasUser(db, p) /\ db[p][1].open # None) =>
             /\ ev'.res \in {"correct", "incorrect"} =>
                   /\ db'[p][1].open = None
                   /\ db'[p][1].stats.asked = db[p][1].stats.asked + 1
             /\ ev'.res = "error" =>
                   /\ db'[p][1].open = db[p][1].open
                   /\ db'[p][1].stats.asked = db[p][1].stats.asked]_vars

\* C2 witness: after an earlier verdict, a reply got the grader's error and
\* the question is still open.
C2_Witness ==
    /\ ev.op = "sms" /\ ev.res = "error"
    /\ HasUser(db, PhoneA)
    /\ db[PhoneA][1].open # None
    /\ db[PhoneA][1].stats.asked = 1

\* C3: whatever the streak was, an incorrect grading sets streak to 0 (and
\* leaves correct), and a correct grading adds exactly 1 to streak and to
\* correct, for sample and for math questions.
C3_StreakResetOrIncrement ==
    [][\A p \in Phones :
          (ev'.op = "sms" /\ ev'.phone = p /\ HasUser(db, p)) =>
             /\ ev'.res = "incorrect" =>
                   /\ db'[p][1].stats.streak = 0
                   /\ db'[p][1].stats.correct = db[p][1].stats.correct
             /\ ev'.res = "correct" =>
                   /\ db'[p][1].stats.streak = db[p][1].stats.streak + 1
                   /\ db'[p][1].stats.correct = db[p][1].stats.correct + 1]_vars

\* C3 witness: a math question was answered incorrectly after two correct
\* answers, and the streak of 2 fell to 0.
C3_Witness ==
    /\ ev.op = "sms" /\ ev.res = "incorrect"
    /\ HasUser(db, PhoneA)
    /\ db[PhoneA][1].track = T_General
    /\ db[PhoneA][1].stats = [asked |-> 3, correct |-> 2, streak |-> 0]

\* C4 as stated: after STOP (or a synonym) subscribed is false, and until
\* START comes from that user every tick sends the user nothing and leaves
\* the open question and the schedule alone.
C4_SilentUntilStart ==
    [][\A p \in Phones :
          /\ (ev'.op = "sms" /\ ev'.phone = p /\ ev'.res = "unsubscribed")
                => ~db'[p][1].subscribed
          /\ (p \in stopped /\ ev'.op = "tick") =>
                /\ ev'.sent[p] = <<>>
                /\ db'[p][1].open = db[p][1].open
                /\ db'[p][1].schedule = db[p][1].schedule]_vars

\* C4 amended: after STOP (or a synonym) subscribed is false; while it is
\* false every tick sends the user nothing and leaves the row alone; and it
\* becomes true again only by START from that user or by a signup.
C4_SilentWhileUnsubscribed ==
    [][\A p \in Phones :
          /\ (ev'.op = "sms" /\ ev'.phone = p /\ ev'.res = "unsubscribed")
                => ~db'[p][1].subscribed
          /\ (HasUser(db, p) /\ ~db[p][1].subscribed) =>
                /\ ev'.op = "tick" => (ev'.sent[p] = <<>> /\ db'[p] = db[p])
                /\ db'[p][1].subscribed =>
                      \/ ev'.op = "sms" /\ ev'.phone = p /\ ev'.res = "resubscribed"
                      \/ ev'.op = "signup" /\ ev'.phone = p]_vars

\* C4 witness: a tick ran while the user who sent STOP had a due slot left,
\* and it sent nothing.
C4_Witness ==
    /\ ev.op = "tick"
    /\ PhoneA \in stopped
    /\ ~db[PhoneA][1].subscribed
    /\ \E i \in DOMAIN db[PhoneA][1].schedule.remaining_utc :
          IsoLeq(db[PhoneA][1].schedule.remaining_utc[i], _now_utc_minute(now))
    /\ ev.sent[PhoneA] = <<>>

\* C5: while subscribed is false an inbound message other than the
\* re-subscription command opens and sends no question and changes nothing.
C5_UnsubscribedIgnored ==
    [][\A p \in Phones :
          (/\ HasUser(db, p) /\ ~db[p][1].subscribed
           /\ ev'.op = "sms" /\ ev'.phone = p /\ ev'.res # "resubscribed")
          => (ev'.sent[p] = <<>> /\ db'[p] = db[p])]_vars

C7_RegeneratedOncePerDay ==
    [][\A p \in Phones :
          (/\ ev'.op = "tick" /\ ev'.res = "ok"
           /\ HasUser(db, p) /\ db[p][1].subscribed)
          => db'[p][1].schedule.local_date =
                _today_local_date_str(_user_tz(db[p][1]), now)]_vars

\* C8: after a successful FREQ <n> or TIMEZONE <zone>, per_day is in [1,3],
\* the schedule is dated today and holds per_day generated instants.
C8_PreferenceRegenerates ==
    \A p \in Phones :
        (ev.op = "sms" /\ ev.phone = p /\ ev.res \in {"freq_updated", "tz_set"}) =>
            /\ db[p][1].per_day \in 1..3
            /\ db[p][1].schedule.local_date = _today_local_date_str(_user_tz(db[p][1]), now)
            /\ Len(db[p][1].schedule.remaining_utc) = db[p][1].per_day

\* C9: after a signup whose phone normalizes to a non-empty key, the row
\* under that key exists with subscribed true, per_day in [1,3], the
\* supplied track, timezone and (clamped) per_day, one open payload that
\* question generation yields for the track, and the stats it had before
\* (zeros for a new row).
C9_SignupStoresUser ==
    [][(ev'.op = "signup" /\ ev'.phone # <<>>) =>
          LET key == ev'.phone
              data == ev'.data[1]
              u == db'[key][1]
          IN  /\ HasUser(db', key)
              /\ u.subscribed
              /\ u.per_day \in 1..3
              /\ data.track # None => u.track = data.track[1]
              /\ data.timezone # None => u.timezone = data.timezone[1]
              /\ (data.per_day # None /\ data.per_day[1].int_ok) =>
                    u.per_day = IF data.per_day[1].v < 1 THEN 1
                                ELSE IF data.per_day[1].v > 3 THEN 3
                                ELSE data.per_day[1].v
              /\ (data.per_day = None \/ ~data.per_day[1].int_ok) =>
                    u.per_day = IF HasUser(db, key) THEN db[key][1].per_day ELSE 1
              /\ Len(u.open) = 1
              /\ u.open[1] \in _compose_question_text(u.track)
              /\ u.stats = IF HasUser(db, key) THEN db[key][1].stats
                           ELSE [asked |-> 0, correct |-> 0, streak |-> 0]]_vars

\* C9 witness: a repeat signup with all three preferences, by a user who had
\* answered a question, left the stats and opened a question of the new track.
C9_Witness ==
    /\ ev.op = "signup" /\ ev.phone = PhoneA
    /\ HasUser(db, PhoneA)
    /\ db[PhoneA][1].stats.asked = 1
    /\ db[PhoneA][1].track = T_SAT
    /\ db[PhoneA][1].timezone = TZ_UTC
    /\ db[PhoneA][1].per_day = 3
    /\ db[PhoneA][1].open # None

\* C10: after a successful signup the schedule is dated the user's local
\* today and holds the per_day delivery instants generated for today.
C10_SignupBuildsSchedule ==
    \A p \in Phones :
        (ev.op = "signup" /\ ev.phone = p /\ ev.res = "ok") =>
            /\ db[p][1].schedule.local_date = _today_local_date_str(_user_tz(db[p][1]), now)
            /\ Len(db[p][1].schedule.remaining_utc) = db[p][1].per_day

\* C11: a due slot is consumed together with its send attempt: when a tick is
\* aborted because the transport raised for a user, no slot that was due at
\* that minute is left in that user's stored remaining_utc (so that no later
\* tick attempts the slot again).
C11_FailedSlotConsumed ==
    [][(ev'.op = "tick" /\ ev'.res = "aborted") =>
          \A i \in DOMAIN db'[ev'.phone][1].schedule.remaining_utc :
              ~IsoLeq(db'[ev'.phone][1].schedule.remaining_utc[i], _now_utc_minute(now))]_vars

\* The slots of p's stored schedule that are due at t
DueStored(d, p, t) ==
    {i \in DOMAIN d[p][1].schedule.remaining_utc :
        IsoLeq(d[p][1].schedule.remaining_utc[i], _now_utc_minute(t))}

\* C12: a transport failure while the tick processes one user does not abort
\* the tick: every user after that one in the iteration whose stored schedule
\* of today holds a due slot is still sent a question, and the slot is no
\* longer stored afterwards (popped, dispatched and persisted).
C12_LaterUsersProcessed ==
    [][(ev'.op = "tick" /\ ev'.res = "aborted") =>
          \A k \in DOMAIN ev'.data :
              (/\ db[ev'.data[k]][1].schedule.local_date =
                      _today_local_date_str(_user_tz(db[ev'.data[k]][1]), now)
               /\ DueStored(db, ev'.data[k], now) # {})
              => /\ ev'.sent[ev'.data[k]] # <<>>
                 /\ DueStored(db', ev'.data[k], now) = {}]_vars

\* C13: a signup with a phone returns success whether or not the transport
\* raised in its send, and the user's row is stored with the question open.
C13_SignupSwallowsTransport ==
    (ev.op = "signup" /\ ev.phone # <<>>) =>
        /\ ev.res = "ok"
        /\ HasUser(db, ev.phone)
        /\ db[ev.phone][1].subscribed
        /\ db[ev.phone][1].open # None

\* C14: a failure of the grader is caught where the handler calls it: no
\* inbound message ends with the grader's exception leaving the handler.
C14_GraderFailureCaught ==
    ev.op = "sms" => ev.res # "raised"

\* C15: a signup or profile update that submits a track outside QUESTIONS
\* or a timezone that is no valid zone is not answered with success, and
\* the stored track, resp. timezone, of an existing user keeps its value.
C15_InvalidPreferenceRejected ==
    [][(ev'.op \in {"signup", "update"} /\ ev'.data # None) =>
          /\ (ev'.data[1].track # None /\ ev'.data[1].track[1] \notin DOMAIN QUESTIONS) =>
                /\ ev'.res # "ok"
                /\ HasUser(db, ev'.phone) =>
                      db'[ev'.phone][1].track = db[ev'.phone][1].track
          /\ (ev'.data[1].timezone # None /\ ~ValidZone(ev'.data[1].timezone[1])) =>
                /\ ev'.res # "ok"
                /\ HasUser(db, ev'.phone) =>
                      db'[ev'.phone][1].timezone = db[ev'.phone][1].timezone]_vars

\* C16: an inbound TRACK <name> whose name is no key of QUESTIONS, from a
\* stored user, leaves that user's row as it was (track, open, stats,
\* schedule, subscribed), answers with the unknown-track message and sends
\* no question.
C16_UnknownTrackNoChange ==
    [][(/\ ev'.op = "sms"
        /\ FirstToken(Upper(Strip(ev'.data[1]))) = C_TRACK
        /\ Strip(AfterFirstSpace(Strip(ev'.data[1]))) \notin DOMAIN QUESTIONS
        /\ HasUser(db, ev'.phone))
       => /\ ev'.res = "track_unknown"
          /\ ev'.sent = NoSent
          /\ db' = db]_vars

\* C16 witness: TRACK with an unknown name was answered for a user who has an
\* open question, a graded answer and the track SAT.
C16_Witness ==
    /\ ev.op = "sms" /\ ev.res = "track_unknown"
    /\ HasUser(db, PhoneA)
    /\ db[PhoneA][1].open # None
    /\ db[PhoneA][1].stats.asked > 0
    /\ db[PhoneA][1].track = T_SAT

\* C17: an inbound TRACK <name> with a key of QUESTIONS sets the user's track
\* to that name and opens a fresh question of that track: afterwards open
\* holds exactly one payload, one _compose_question_text yields for the name,
\* its recorded track is the name, and it is the question in the reply.
C17_KnownTrackOpensQuestion ==
    [][(/\ ev'.op = "sms"
        /\ FirstToken(Upper(Strip(ev'.data[1]))) = C_TRACK
        /\ Strip(AfterFirstSpace(Strip(ev'.data[1]))) \in DOMAIN QUESTIONS)
       => /\ ev'.res = "track_changed"
          /\ db'[ev'.phone][1].track = Strip(AfterFirstSpace(Strip(ev'.data[1])))
          /\ Len(db'[ev'.phone][1].open) = 1
          /\ db'[ev'.phone][1].open[1].track = db'[ev'.phone][1].track
          /\ db'[ev'.phone][1].open[1].kind = "sample"
          /\ \E k \in DOMAIN QUESTIONS[db'[ev'.phone][1].track] :
                QUESTIONS[db'[ev'.phone][1].track][k].id = db'[ev'.phone][1].open[1].qid
          /\ ev'.sent[ev'.phone] = db'[ev'.phone][1].open]_vars

\* C17 witness: TRACK SAT was answered for a user who has a graded answer
\* (so had a question of another track before); the SAT question is open.
C17_Witness ==
    /\ ev.op = "sms" /\ ev.res = "track_changed"
    /\ ev.data = Some(C_TRACK \o Sp \o T_SAT)
    /\ db[PhoneA][1].track = T_SAT
    /\ db[PhoneA][1].open # None
    /\ db[PhoneA][1].open[1].track = T_SAT
    /\ db[PhoneA][1].stats.asked > 0

\* The words the handler recognizes as commands
CommandWords == StopWords \cup HelpWords \cup {C_START, C_TRACK, C_FREQ, C_TIMEZONE, C_NEXT}

\* C18: command recognition takes priority over grading: when the first token
\* of the inbound text is a command word in any letter case, the text is not
\* graded: the reply is that of a command branch, the stats are as before,
\* and the open question is as before unless the command is NEXT or TRACK
\* with a known track.
C18_CommandBeforeGrading ==
    [][(/\ ev'.op = "sms"
        /\ Upper(FirstToken(Strip(ev'.data[1]))) \in CommandWords)
       => /\ ev'.res \in {"unsubscribed", "resubscribed", "help", "track_unknown",
                          "track_changed", "freq_usage", "freq_updated",
                          "tz_invalid", "tz_set", "next"}
          /\ db'[ev'.phone][1].stats =
                (IF HasUser(db, ev'.phone) THEN db[ev'.phone][1] ELSE NewUser).stats
          /\ ev'.res \notin {"next", "track_changed"} =>
                db'[ev'.phone][1].open =
                    (IF HasUser(db, ev'.phone) THEN db[ev'.phone][1] ELSE NewUser).open]_vars

\* C18 witness: "Stop" arrived while a question was open, after a graded
\* answer; it unsubscribed the user and the question is still open.
C18_Witness ==
    /\ ev.op = "sms" /\ ev.res = "unsubscribed"
    /\ ev.data = Some(<<"S","t","o","p">>)
    /\ db[PhoneA][1].open # None
    /\ db[PhoneA][1].stats.asked > 0

\* C19: a profile fetch or update for a phone that has no stored user
\* returns not-found and creates no user: the table is the same afterwards.
C19_NotFoundCreatesNothing ==
    [][(/\ ev'.op \in {"me", "update"}
        /\ ev'.phone # <<>>
        /\ ~HasUser(db, ev'.phone))
       => /\ ev'.res = "not_found"
          /\ db' = db]_vars

\* C19 witness: an update for a phone that never signed up was answered
\* not-found while another user is stored; the phone still has no row.
C19_Witness ==
    /\ ev.op = "update" /\ ev.res = "not_found" /\ ev.phone = PhoneB
    /\ HasUser(db, PhoneA)
    /\ ~HasUser(db, PhoneB)

\* C20: a signup whose phone is missing or blank is rejected and has no
\* effect: the table is unchanged (no user created or modified, no question
\* opened) and nothing is sent.
C20_BlankPhoneRejected ==
    [][(ev'.op = "signup" /\ ev'.phone = <<>>)
       => /\ ev'.res = "phone_required"
          /\ db' = db
          /\ ev'.sent = NoSent]_vars

\* C20 witness: a signup without a phone was rejected while a user with an
\* open question is stored.
C20_Witness ==
    /\ ev.op = "signup" /\ ev.phone = <<>> /\ ev.res = "phone_required"
    /\ HasUser(db, PhoneA)
    /\ db[PhoneA][1].open # None

\* The row of p before the operation, or the row _ensure_user would create
RowBefore(p) == IF HasUser(db, p) THEN db[p][1] ELSE NewUser

\* C21: every stored user's per_day is an integer in [1,3] whatever is
\* submitted by signup, profile update or FREQ: a number out of range is
\* clamped, and a value that is no number (or FREQ without a digit) leaves
\* per_day as it was.
C21_PerDayInRange ==
    [][\A p \in Phones : HasUser(db', p) =>
          /\ db'[p][1].per_day \in 1..3
          /\ (/\ ev'.op \in {"signup", "update"} /\ ev'.phone = p /\ ev'.data # None
              /\ ev'.data[1].per_day # None)
             => db'[p][1].per_day =
                   IF ~ev'.data[1].per_day[1].int_ok THEN RowBefore(p).per_day
                   ELSE IF ev'.data[1].per_day[1].v < 1 THEN 1
                   ELSE IF ev'.data[1].per_day[1].v > 3 THEN 3
                   ELSE ev'.data[1].per_day[1].v
          /\ (/\ ev'.op = "sms" /\ ev'.phone = p
              /\ Upper(FirstToken(Strip(ev'.data[1]))) = C_FREQ
              /\ \A i \in DOMAIN ev'.data[1] : ~IsDigit(ev'.data[1][i]))
             => db'[p][1].per_day = RowBefore(p).per_day]_vars

\* C21 witness: FREQ 9 was answered and the stored per_day is 3.
C21_Witness ==
    /\ ev.op = "sms" /\ ev.res = "freq_updated"
    /\ ev.data = Some(C_FREQ \o Sp \o <<"9">>)
    /\ db[PhoneA][1].per_day = 3

\* C22: two calls of the due-slot pop at the same minute: the first returns
\* exactly the stored slots whose instant is at or before now and removes
\* exactly those; the second returns nothing and removes nothing; the slots
\* after now stay stored, in their order.
C22_PopOnceThenEmpty ==
    [][ev'.op = "pop" =>
          /\ ev'.data[1] = SelectSeq(db[ev'.phone][1].schedule.remaining_utc,
                                     LAMBDA s : InstantOf(s) <= now)
          /\ ev'.data[2] = <<>>
          /\ db'[ev'.phone][1].schedule.remaining_utc =
                SelectSeq(db[ev'.phone][1].schedule.remaining_utc,
                          LAMBDA s : InstantOf(s) > now)
          /\ db'[ev'.phone][1].schedule.local_date = db[ev'.phone][1].schedule.local_date]_vars

\* C22 witness: the first call returned two due slots, the second none, and
\* a later slot is still stored.
C22_Witness ==
    /\ ev.op = "pop"
    /\ Len(ev.data[1]) = 2
    /\ ev.data[2] = <<>>
    /\ Len(db[PhoneA][1].schedule.remaining_utc) = 1

\* C23: phone normalization is idempotent: the phone a request was
\* normalized to is normalized to itself.
C23_NormalizeIdempotent ==
    ev.op = "me" => _normalize_phone(ev.phone) = ev.phone

\* C23 witness: a spelling with ten digits was normalized to the +1 form.
C23_Witness ==
    /\ ev.op = "me"
    /\ ev.phone = <<"+","1">> \o RawA10

\* C24: stats.asked and stats.correct never decrease, whatever the
\* operation, and each changes only when an inbound reply was graded.
C24_CountersAccumulate ==
    [][\A p \in Phones : HasUser(db, p) =>
          /\ HasUser(db', p)
          /\ db'[p][1].stats.asked >= db[p][1].stats.asked
          /\ db'[p][1].stats.correct >= db[p][1].stats.correct
          /\ (\/ db'[p][1].stats.asked # db[p][1].stats.asked
              \/ db'[p][1].stats.correct # db[p][1].stats.correct)
             => /\ ev'.op = "sms" /\ ev'.phone = p
                /\ ev'.res \in {"correct", "incorrect"}]_vars

\* C24 witness: a user with two graded answers, one of them correct, signed
\* up again with a track; the counters are as they were.
C24_Witness ==
    /\ ev.op = "signup" /\ ev.res = "ok"
    /\ ev.data = Some([NoData EXCEPT !.track = Some(T_General)])
    /\ db[PhoneA][1].stats.asked = 2
    /\ db[PhoneA][1].stats.correct = 1

C26_TickSendsPerDueSlot ==
    [][ev'.op = "tick" =>
          \A p \in Phones :
              (/\ HasUser(db, p) /\ db[p][1].subscribed
               /\ db[p][1].schedule.local_date =
                      _today_local_date_str(_user_tz(db[p][1]), now))
              => /\ Len(ev'.sent[p]) = Cardinality(DueStored(db, p, now))
                 /\ ev'.sent[p] # <<>> => db'[p][1].open = Some(LastOf(ev'.sent[p]))
                 /\ ev'.sent[p] = <<>> => db'[p][1].open = db[p][1].open
                 /\ db'[p][1].stats = db[p][1].stats]_vars

(***************************************************************************)
(* Specification of the inbound handler: one user, every branch of sms      *)
(* (opt-out and opt-in, help, known and unknown track, frequency with and  *)
(* without digits, valid and invalid timezone, NEXT and the empty body,    *)
(* replies to sample and math questions, the fallback), profile updates    *)
(* that choose the track.                                                  *)
(***************************************************************************)
InboundBodies ==
    { C_STOP, C_START, C_HELP,
      C_TRACK \o Sp \o T_Consulting, C_TRACK \o Sp \o <<"C","h","e","s","s">>,
      C_FREQ \o Sp \o <<"2">>, C_FREQ,
      C_TIMEZONE \o Sp \o TZ_UTC, C_TIMEZONE \o Sp \o TZ_Bad,
      C_NEXT, <<>>, <<"D">>, <<"b">>, <<"1","0","0">>, <<SuperscriptTwo>> }

NextInbound ==
    \/ \E data \in CountersData : Update(PhoneA, data)
    \/ \E body \in InboundBodies : Sms(PhoneA, body)

SpecInbound == Init /\ [][NextInbound]_vars

\* The columns of a row that the handlers write
RowFields == {"subscribed", "track", "per_day", "timezone", "open", "stats", "schedule"}

\* C27: when the inbound-message handler returns, the stored row of the
\* sender equals the row the handler holds in memory, in subscribed, track,
\* per_day, timezone, open, stats and schedule: every mutation was committed.
C27_MutationsPersisted ==
    (ev.op = "sms" /\ ev.res # "raised")
    => /\ HasUser(db, ev.phone)
       /\ \A f \in RowFields : db[ev.phone][1][f] = ev.mem[1][f]

\* A reply was graded: stats and open were changed in memory by _grade_open.
C27_Witness ==
    /\ ev.op = "sms" /\ ev.res = "correct"
    /\ ev.mem[1].stats.asked = 1 /\ ev.mem[1].open = None
    /\ db[ev.phone] = ev.mem

\* The upper-cased reply is no letter of a choice, no 1-based index of a
\* choice and not the text of a choice.
NotAChoice(choices, user_up) ==
    /\ \A i \in DOMAIN choices : ~(i <= Len(UpperAZ) /\ user_up = <<UpperAZ[i]>>)
    /\ ~(/\ user_up # <<>>
          /\ \A k \in DOMAIN user_up : IsDigit(user_up[k])
          /\ 1 <= DigitsToNat(user_up) /\ DigitsToNat(user_up) <= Len(choices))
    /\ \A i \in DOMAIN choices : Upper(Strip(choices[i])) # user_up

\* C28: a reply of ASCII characters that is not a command, sent while a
\* sample question of the bank is open, and that is no letter, index or text
\* of one of its choices gets the retry prompt; the open question and the stats stay as they were.
C28_UnparseableKeepsOpen ==
    [][(/\ ev'.op = "sms"
        /\ HasUser(db, ev'.phone)
        /\ db[ev'.phone][1].open # None
        /\ db[ev'.phone][1].open[1].kind = "sample"
        /\ Strip(ev'.data[1]) # <<>>
        /\ SuperscriptTwo \notin Range(ev'.data[1])
        /\ CommandOf(Strip(ev'.data[1])) \notin CommandWords
        /\ \E q \in Range(QUESTIONS[db[ev'.phone][1].open[1].track]) :
              /\ q.id = db[ev'.phone][1].open[1].qid
              /\ NotAChoice(q.choices, Upper(Strip(ev'.data[1]))))
       => /\ ev'.res = "error"
          /\ db'[ev'.phone][1].open = db[ev'.phone][1].open
          /\ db'[ev'.phone][1].stats = db[ev'.phone][1].stats]_vars

OtherPayloads ==
    { NoQuestion,
      [kind |-> "essay", qid |-> QUESTIONS[T_Consulting][1].id, track |-> T_Consulting] }

EarlierStats ==
    { [asked |-> 0, correct |-> 0, streak |-> 0],
      [asked |-> 2, correct |-> 1, streak |-> 0],
      [asked |-> 2, correct |-> 2, streak |-> 2] }

InitUnknownKind ==
    /\ \E pl \in OtherPayloads, st \in EarlierStats, tr \in {T_Consulting, T_General} :
          db = [p \in Phones |->
                  IF p = PhoneA
                  THEN Some([NewUser EXCEPT !.open = Some(pl), !.stats = st, !.track = tr])
                  ELSE None]
    /\ now = StartTime
    /\ ev = Event("init", <<>>, "ok", NoSent)
    /\ stopped = {}
    /\ sg = SgIdle

UnknownKindBodies ==
    { <<"D">>, <<"b">>, <<"a","b","c">>, <<"1","0","0">>, <<"9","9">>,
      C_NEXT, C_HELP, C_STOP, C_START }

NextUnknownKind == \E body \in UnknownKindBodies : Sms(PhoneA, body)

SpecUnknownKind == InitUnknownKind /\ [][NextUnknownKind]_vars

\* C30: while the stored open payload has a kind other than sample or math, a
\* reply that is not a command is answered with the "unknown question type"
\* message and the stats are left as they were.
C30_UnknownKindNotGraded ==
    [][(/\ ev'.op = "sms"
        /\ HasUser(db, ev'.phone)
        /\ db[ev'.phone][1].open # None
        /\ db[ev'.phone][1].open[1].kind \notin {"sample", "math"}
        /\ Strip(ev'.data[1]) # <<>>
        /\ CommandOf(Strip(ev'.data[1])) \notin CommandWords)
       => /\ ev'.res = "unknown"
          /\ db'[ev'.phone][1].stats = db[ev'.phone][1].stats]_vars

\* The reply "D" to a payload of kind none was answered by the defensive
\* branch, with two questions asked before.
C30_Witness ==
    /\ ev.op = "sms" /\ ev.res = "unknown" /\ ev.data = Some(<<"D">>)
    /\ db[PhoneA][1].open = Some(NoQuestion)
    /\ db[PhoneA][1].stats.asked = 2

(***************************************************************************)
(* Specification of first contact: inbound messages from two numbers, one  *)
(* of them in three spellings, with commands, an answer and plain text;    *)
(* the other number asks for help and opts out.                            *)
(***************************************************************************)
FirstContactFroms == {PhoneA, RawA10, RawA11, PhoneB}

FirstContactBodies ==
    { C_HELP, <<"h">>, <<"?">>, C_NEXT, C_STOP, C_FREQ \o Sp \o <<"2">>, <<"D">>,
      <<"h","i">> }

NextFirstContact ==
    \/ \E from \in FirstContactFroms \ {PhoneB}, body \in FirstContactBodies : Sms(from, body)
    \/ \E body \in {C_HELP, C_STOP} : Sms(PhoneB, body)

SpecFirstContact == Init /\ [][NextFirstContact]_vars

\* C31: an inbound message leaves a row for the sender and touches no other
\* row; the handler dispatches the message on the stored row of the sender
\* if there is one and otherwise on a new row with the defaults (Consulting,
\* once a day, the default zone, subscribed, nothing open, counters 0, no
\* schedule), which a message that changes nothing leaves stored as it is.
C31_FirstContactCreatesDefaults ==
    [][ev'.op = "sms" =>
          /\ HasUser(db', ev'.phone)
          /\ \A q \in Phones \ {ev'.phone} : db'[q] = db[q]
          /\ \E o \in sms(RowBefore(ev'.phone), ev'.data[1], now) :
                ev'.mem = Some(o.user) /\ ev'.res = o.res
          /\ (~HasUser(db, ev'.phone) /\ ev'.res \in {"help", "fallback"})
             => db'[ev'.phone] =
                   Some([track |-> T_Consulting, per_day |-> 1, timezone |-> TZ_NewYork,
                         subscribed |-> TRUE, open |-> None,
                         stats |-> [asked |-> 0, correct |-> 0, streak |-> 0],
                         schedule |-> [local_date |-> NoDate, remaining_utc |-> <<>>]])]_vars

\* Both numbers have a row, and the last message came from a number whose
\* row had been changed by an earlier message (it is not the default row).
C31_Witness ==
    /\ HasUser(db, PhoneA) /\ HasUser(db, PhoneB)
    /\ ev.op = "sms" /\ ev.phone = PhoneA /\ ev.res = "help"
    /\ db[PhoneA][1].per_day = 2 /\ ~db[PhoneA][1].subscribed

\* C32: a message whose command is HELP, H or ?, and a message that is no
\* command and not empty while nothing is open, are answered with the help
\* text and the fallback prompt, and the stored row of an existing user is
\* the same afterwards in every field.
C32_HelpAndFallbackChangeNothing ==
    [][(ev'.op = "sms" /\ HasUser(db, ev'.phone))
       => /\ CommandOf(Strip(ev'.data[1])) \in {<<"H","E","L","P">>, <<"H">>, <<"?">>}
             => ev'.res = "help" /\ db' = db
          /\ (/\ CommandOf(Strip(ev'.data[1])) \notin CommandWords
              /\ Strip(ev'.data[1]) # <<>>
              /\ db[ev'.phone][1].open = None)
             => ev'.res = "fallback" /\ db' = db]_vars

\* HELP was answered while a question was open and the row had been changed
\* before.
C32_Witness ==
    /\ ev.op = "sms" /\ ev.res = "help" /\ ev.data = Some(C_HELP)
    /\ ev.phone = PhoneA /\ HasUser(db, PhoneA)
    /\ db[PhoneA][1].open # None /\ db[PhoneA][1].per_day = 2

(***************************************************************************)
(* Specification of _rand_local_minutes, run statement by statement for any *)
(* per_day argument, any window the environment may configure (start and   *)
(* end hour of the day, also an empty or reversed window), both zones and  *)
(* two instants.  sg holds the locals of the call.                         *)
(***************************************************************************)
\* today.replace(hour=h, minute=0, second=0, microsecond=0), as an instant
LocalAtHour(h, tz, t) == _today_local_date_str(tz, t) * DayLen + h * MinutesPerHour

\* A variant that never takes the early return
DegenerateWindow_Never(span) == FALSE

\* if span <= 0
DegenerateWindow(span) == span <= 0

WindowHours == 0..(HoursPerDay - 1)

InitGenerate ==
    /\ db = [p \in Phones |-> None]
    /\ now \in {StartTime, StartTime + DayLen - 1}
    /\ ev = Event("init", <<>>, "ok", NoSent)
    /\ stopped = {}
    /\ \E n \in 0..4, ws \in WindowHours, we \in WindowHours, tz \in {_user_tz(NewUser), 0} :
          sg = [pc |-> "call", n |-> n, start |-> ws, end |-> we, tz |-> tz,
                today |-> 0, span |-> 0, chosen |-> {}, draws |-> 0, result |-> <<>>]

\* n = max(1, min(3, int(n))); today; end; span; the early return
GenCall ==
    /\ sg.pc = "call"
    /\ LET today == LocalAtHour(sg.start, sg.tz, now)
           span == Max2(0, LocalAtHour(sg.end, sg.tz, now) - today)
       IN  sg' = IF DegenerateWindow(span)
                 THEN [sg EXCEPT !.n = ClampPerDay(@), !.today = today, !.span = span,
                                 !.pc = "returned", !.result = <<today>>]
                 ELSE [sg EXCEPT !.n = ClampPerDay(@), !.today = today, !.span = span,
                                 !.pc = "loop"]
    /\ ev' = Event("generate", <<>>, "called", NoSent)
    /\ UNCHANGED <<db, now, stopped>>

\* One iteration of "while len(chosen) < n": offset = random.randint(0, span);
\* chosen.add(today + offset).  The counter of iterations stops at MaxDraws.
MaxDraws == 4

GenDraw(offset) ==
    /\ sg.pc = "loop"
    /\ Cardinality(sg.chosen) < sg.n
    /\ offset \in Offsets(sg.span)
    /\ sg' = [sg EXCEPT !.chosen = @ \cup {sg.today + offset},
                        !.draws = Min2(MaxDraws, @ + 1)]
    /\ ev' = Event("generate", <<>>, "draw", NoSent)
    /\ UNCHANGED <<db, now, stopped>>

\* The loop condition fails: return sorted(list(chosen))
GenReturn ==
    /\ sg.pc = "loop"
    /\ Cardinality(sg.chosen) >= sg.n
    /\ sg' = [sg EXCEPT !.pc = "returned", !.result = SortedSeq(sg.chosen)]
    /\ ev' = Event("generate", <<>>, "returned", NoSent)
    /\ UNCHANGED <<db, now, stopped>>

\* An iteration whose draw is an instant not chosen before
GenDrawNew ==
    \E offset \in 0..DayLen : sg.today + offset \notin sg.chosen /\ GenDraw(offset)

NextGenerate ==
    \/ GenCall
    \/ \E offset \in 0..DayLen : GenDraw(offset)
    \/ GenReturn

\* The statements run one after the other, and the independent uniform draws
\* do not repeat chosen offsets for ever while another offset is left.
SpecGenerate ==
    /\ InitGenerate /\ [][NextGenerate]_vars
    /\ WF_vars(GenCall) /\ WF_vars(GenReturn) /\ WF_vars(GenDrawNew)

\* C33: _rand_local_minutes returns.  With a span that is not positive it
\* returns the window start alone and never draws; with a positive span the
\* loop is entered, the window has at least n distinct offsets, so that a
\* new one can be drawn whenever fewer than n are chosen, and the call ends.
C33_GenerationTerminates ==
    /\ [](/\ (sg.pc = "returned" /\ sg.span <= 0)
              => (sg.result = <<sg.today>> /\ sg.draws = 0)
          /\ sg.pc = "loop"
              => /\ sg.span > 0
                 /\ sg.n \in 1..3
                 /\ Cardinality(Offsets(sg.span)) >= sg.n
                 /\ Cardinality(sg.chosen) < sg.n
                    => \E offset \in Offsets(sg.span) : sg.today + offset \notin sg.chosen)
    /\ <>(sg.pc = "returned")

\* Three instants were returned after a draw that repeated a chosen offset.
C33_Witness ==
    /\ sg.pc = "returned" /\ sg.span > 0
    /\ Len(sg.result) = 3 /\ sg.draws = 4

\* C34: in every reachable state the counters of every row satisfy
\* 0 <= streak <= correct <= asked.
C34_CountersOrdered ==
    \A p \in Phones :
        HasUser(db, p) =>
            /\ 0 <= db[p][1].stats.streak
            /\ db[p][1].stats.streak <= db[p][1].stats.correct
            /\ db[p][1].stats.correct <= db[p][1].stats.asked

\* Three answers were graded: one wrong answer between two correct ones, so
\* the streak was reset and started again.
C34_Witness ==
    /\ HasUser(db, PhoneA)
    /\ ev.op = "sms" /\ ev.res = "correct"
    /\ db[PhoneA][1].stats = [asked |-> 3, correct |-> 2, streak |-> 1]

(***************************************************************************)
(* Specification of the daily quota: one user, the clock, the scheduler    *)
(* with a working transport, profile updates of per_day and of the zone,   *)
(* and the commands STOP, START and FREQ.  sg counts, for each local       *)
(* calendar day of the user's zone at the time of the tick, the questions  *)
(* the scheduler has sent to the user (the count stops at QuotaCap).       *)
(***************************************************************************)
QuotaCap == 4
QuotaDays == 0..((StartTime + Horizon + DayLen) \div DayLen)

QuotaData ==
    { [NoData EXCEPT !.per_day = Some(IntArg(3))],
      [NoData EXCEPT !.timezone = Some(TZ_Tokyo)],
      [NoData EXCEPT !.timezone = Some(TZ_NewYork)] }

QuotaBodies == { C_STOP, C_START, C_FREQ \o Sp \o <<"2">> }

InitQuota ==
    /\ db = [p \in Phones |-> None]
    /\ now = StartTime
    /\ ev = Event("init", <<>>, "ok", NoSent)
    /\ stopped = {}
    /\ sg = [pc |-> "count", sent_on |-> [d \in QuotaDays |-> 0]]

\* One run of the scheduler job, counted
TickCounted ==
    /\ \E order \in QueryOrders(db) :
       \E o \in _minute_tick(order, db, db, FALSE, NoSent, now, FALSE) :
            /\ db' = o.db
            /\ ev' = [Event("tick", o.at, o.res, o.sent) EXCEPT !.data = o.rest]
            /\ sg' = IF HasUser(db, PhoneA)
                      THEN [sg EXCEPT
                              !.sent_on[_today_local_date_str(_user_tz(db[PhoneA][1]), now)] =
                                  Min2(QuotaCap, @ + Len(o.sent[PhoneA]))]
                      ELSE sg
    /\ UNCHANGED <<now, stopped>>

NextQuota ==
    \/ AdvanceClock
    \/ TickCounted
    \/ \E data \in QuotaData : Update(PhoneA, data)
    \/ \E body \in QuotaBodies : Sms(PhoneA, body)

SpecQuota == InitQuota /\ [][NextQuota]_vars

\* C35: on no local calendar day has the scheduler sent the user more than
\* three questions.
C35_DailyQuota ==
    \A d \in QuotaDays : sg.sent_on[d] <= 3

(***************************************************************************)
(* Specification of fair ticks: one user who never opts out and sends no   *)
(* FREQ, TIMEZONE or signup; the transport works; every minute begins with *)
(* a run of the scheduler job, requests come in after it, and time passes. *)
(* The profile update sets per_day or moves the user to another zone.      *)
(***************************************************************************)
FairData ==
    { [NoData EXCEPT !.per_day = Some(IntArg(3))],
      [NoData EXCEPT !.timezone = Some(TZ_Tokyo)] }

FairBodies == { C_NEXT, C_HELP }

\* A minute passes once the job has run in it
FairClock == ev.op # "clock" /\ AdvanceClock

\* The run of the job with which a minute begins
JobRuns == ev.op = "clock" /\ Tick(FALSE)

NextFairTicks ==
    \/ FairClock
    \/ Tick(FALSE)
    \/ ev.op # "clock" /\ \E data \in FairData : Update(PhoneA, data)
    \/ ev.op # "clock" /\ \E body \in FairBodies : Sms(PhoneA, body)

\* A minute has begun and its run of the job is pending: the states in which
\* JobRuns is enabled (the job has an outcome on every table, and the outcome
\* changes ev)
JobPending == ev.op = "clock"

\* scheduler.add_job(_minute_tick, "interval", minutes=1): the job runs in
\* every minute, and time passes.  The job is weakly fair, WF_vars(JobRuns),
\* written with JobPending for ENABLED <<JobRuns>>_vars.
SpecFairTicks ==
    /\ Init /\ [][NextFairTicks]_vars
    /\ ([]<>(~JobPending) \/ []<><<JobRuns>>_vars)
    /\ WF_vars(FairClock)

\* The instants of the first day's window in the default zone, after its
\* first minute, as stored slots: the slots that are stored once the first
\* slot of that day was dispatched
FairSlots ==
    {IsoFormat(i - _user_tz(NewUser)) :
        i \in (WindowStart(_user_tz(NewUser), StartTime) + 1)
               ..WindowEnd(_user_tz(NewUser), StartTime)}

\* The slot is in the stored schedule of the user
SlotStored(s) ==
    /\ HasUser(db, PhoneA)
    /\ \E i \in DOMAIN db[PhoneA][1].schedule.remaining_utc :
          db[PhoneA][1].schedule.remaining_utc[i] = s

\* A tick at the minute of the slot has just removed it and sent a question
SlotDispatched(s) ==
    /\ ev.op = "tick" /\ ev.res = "ok" /\ ev.sent[PhoneA] # <<>>
    /\ now = InstantOf(s)
    /\ ~SlotStored(s)
    /\ db[PhoneA][1].open = Some(LastOf(ev.sent[PhoneA]))

\* The user is no longer in the default zone
ZoneMoved == HasUser(db, PhoneA) /\ db[PhoneA][1].timezone # DEFAULT_TZ

\* C36 as stated: every stored slot is eventually dispatched, by the tick at
\* the minute of the slot.
C36_StoredSlotDispatched ==
    \A s \in FairSlots : SlotStored(s) ~> SlotDispatched(s)

\* C36, for a user whose zone is not changed by a profile update: every
\* stored slot is eventually dispatched by the tick at the minute of the
\* slot; a slot may be dropped only after the zone was changed.
C36_StoredSlotDispatchedInZone ==
    \A s \in FairSlots :
        SlotStored(s) ~> (SlotDispatched(s) \/ ZoneMoved)

\* The second of three slots of the day was dispatched at its minute, in the
\* default zone.
C36_Witness ==
    /\ HasUser(db, PhoneA)
    /\ db[PhoneA][1].timezone = DEFAULT_TZ
    /\ db[PhoneA][1].per_day = 3
    /\ Len(db[PhoneA][1].schedule.remaining_utc) = 1
    /\ \E s \in FairSlots : SlotDispatched(s)

(***************************************************************************)
(* Specification of the scheduler job and the /sms handler running in two  *)
(* threads on the row of one user.  Each opens its own session, loads the  *)
(* row, changes it in memory and commits; the commit writes the columns    *)
(* assigned a new value in that session and leaves the others as stored.   *)
(* sg holds the two sessions (the row each loaded), the Body of the        *)
(* message being handled, the question delivered last to the user, and     *)
(* overlap: the job delivered a question after the handler now running or  *)
(* last run had loaded its row.  All of it happens within the first minute *)
(* of the sending window.                                                  *)
(***************************************************************************)
RaceBodies == { <<"D">>, <<"A">>, C_NEXT, C_HELP, C_STOP, C_START }

\* session.commit() of a row loaded as loaded and now user in memory, on the
\* table row stored: an UPDATE of the changed columns
Flush(stored, loaded, user) ==
    [f \in DOMAIN stored |-> IF user[f] # loaded[f] THEN user[f] ELSE stored[f]]

InitRace ==
    /\ \E op \in {None} \cup {Some(pl) : pl \in _compose_question_text(T_Consulting)} :
          db = [p \in Phones |-> IF p = PhoneA THEN Some([NewUser EXCEPT !.open = op])
                                 ELSE None]
    /\ now = WindowStart(_user_tz(NewUser), StartTime) - _user_tz(NewUser)
    /\ ev = Event("init", <<>>, "ok", NoSent)
    /\ stopped = {}
    /\ sg = [hpc |-> "idle", hrow |-> None, hbody |-> <<>>,
             tpc |-> "idle", trow |-> None, last |-> None, overlap |-> FALSE]

\* sms: u = _ensure_user(session, from_phone)
SmsLoad(rawBody) ==
    /\ sg.hpc = "idle"
    /\ sg' = [sg EXCEPT !.hpc = "loaded", !.hrow = db[PhoneA], !.hbody = rawBody,
                        !.overlap = FALSE]
    /\ UNCHANGED <<db, now, ev, stopped>>

\* sms: the branch taken on the loaded row, its save and its reply
SmsFinish ==
    /\ sg.hpc = "loaded"
    /\ \E o \in sms(sg.hrow[1], sg.hbody, now) :
          /\ o.user.stats.asked <= MaxAsked
          /\ db' = IF o.saved
                   THEN _save(db, PhoneA, Flush(db[PhoneA][1], sg.hrow[1], o.user))
                   ELSE db
          /\ ev' = [Event("sms", PhoneA, o.res, SentTo(PhoneA, o.sent))
                       EXCEPT !.data = Some(sg.hbody), !.mem = Some(o.user)]
          /\ stopped' = IF o.res = "unsubscribed" THEN stopped \cup {PhoneA}
                        ELSE IF o.res = "resubscribed" THEN stopped \ {PhoneA}
                        ELSE stopped
          /\ sg' = [sg EXCEPT !.hpc = "idle", !.hrow = None,
                              !.last = IF o.sent # <<>> THEN Some(LastOf(o.sent)) ELSE @]
    /\ UNCHANGED now

\* _minute_tick: users = session.query(User).filter(...).all()
TickLoad ==
    /\ sg.tpc = "idle"
    /\ PhoneA \in SubscribedUsers(db)
    /\ sg' = [sg EXCEPT !.tpc = "loaded", !.trow = db[PhoneA]]
    /\ UNCHANGED <<db, now, ev, stopped>>

\* _minute_tick: the iteration on the loaded row, its sends and its save
TickFinish ==
    /\ sg.tpc = "loaded"
    /\ \E r \in TickUser(sg.trow[1], now, FALSE) :
          /\ db' = IF r.due > 0
                   THEN _save(db, PhoneA, Flush(db[PhoneA][1], sg.trow[1], r.user))
                   ELSE db
          /\ ev' = [Event("tick", <<>>, "ok", SentTo(PhoneA, r.sent)) EXCEPT !.data = <<>>]
          /\ sg' = [sg EXCEPT !.tpc = "idle", !.trow = None,
                              !.last = IF r.sent # <<>> THEN Some(LastOf(r.sent)) ELSE @,
                              !.overlap = @ \/ (r.sent # <<>> /\ sg.hpc = "loaded")]
    /\ UNCHANGED <<now, stopped>>

NextRace ==
    \/ \E body \in RaceBodies : SmsLoad(body)
    \/ SmsFinish
    \/ TickLoad
    \/ TickFinish

SpecRace == InitRace /\ [][NextRace]_vars

\* C37: once the scheduler job and a message handler that had loaded the row
\* before the job delivered a question have both finished, the stored open
\* question is the question delivered last to the user.
C37_TickQuestionSurvives ==
    (sg.hpc = "idle" /\ sg.tpc = "idle" /\ sg.overlap) => db[PhoneA][1].open = sg.last

\* The reply of the last step was handed to a grader
GradedResults == {"correct", "incorrect", "error", "raised"}

\* The row of phone p as it was when its open question was composed: the
\* track is the one recorded in the payload
RowAtQuestion(p) == [db[p][1] EXCEPT !.track = db[p][1].open[1].track]

\* The reply body of the next event gets, on the stored row of p, the result,
\* the stats and the open question that it gets on row
SameOutcomeOn(p, row) ==
    \E o \in sms(row, ev'.data[1], now) :
        /\ o.res = ev'.res
        /\ o.user.stats = db'[p][1].stats
        /\ o.user.open = db'[p][1].open

\* C38 (as stated): a signup or a profile update that submits a track while
\* a question is open leaves the open payload as it was, and a reply to an
\* open question gets the verdict, the stats and the open question it would
\* get if the user's track were still the one recorded in the payload.
C38_TrackChangeKeepsQuestion ==
    [][/\ (/\ ev'.op \in {"update", "signup"}
           /\ ev'.data # None
           /\ HasUser(db, ev'.phone)
           /\ ev'.data[1].track # None
           /\ db[ev'.phone][1].open # None)
          => db'[ev'.phone][1].open = db[ev'.phone][1].open
       /\ (/\ ev'.op = "sms"
           /\ HasUser(db, ev'.phone)
           /\ db[ev'.phone][1].open # None
           /\ ev'.res \in GradedResults)
          => SameOutcomeOn(ev'.phone, RowAtQuestion(ev'.phone))]_vars

\* C38 (amended): the same for a profile update alone; a signup opens a new
\* question.
C38_UpdateKeepsQuestion ==
    [][/\ (/\ ev'.op = "update"
           /\ ev'.data # None
           /\ HasUser(db, ev'.phone)
           /\ ev'.data[1].track # None
           /\ db[ev'.phone][1].open # None)
          => db'[ev'.phone][1].open = db[ev'.phone][1].open
       /\ (/\ ev'.op = "sms"
           /\ HasUser(db, ev'.phone)
           /\ db[ev'.phone][1].open # None
           /\ ev'.res \in GradedResults)
          => SameOutcomeOn(ev'.phone, RowAtQuestion(ev'.phone))]_vars

\* The user's track is SAT and the reply "D" has just been graded correct:
\* it answered the Consulting question opened before the track was changed.
C38_Witness ==
    /\ ev.op = "sms"
    /\ ev.res = "correct"
    /\ ev.data = Some(<<"D">>)
    /\ HasUser(db, PhoneA)
    /\ db[PhoneA][1].track = T_SAT
    /\ db[PhoneA][1].stats.asked >= 1

(***************************************************************************)
(* Specification of skipping: one user asks for questions, answers some    *)
(* and asks for the next one while a question is open, with NEXT in any    *)
(* case, with an empty Body and with a Body of blanks.  sg keeps the       *)
(* stored row of the sender as it was when the last message came in.       *)
(***************************************************************************)
SkipBodies ==
    { C_NEXT, Lower(C_NEXT), <<>>, Sp, <<"D">>, <<"b">>,
      C_TRACK \o Sp \o T_SAT, C_STOP }

InitSkip ==
    /\ db = [p \in Phones |-> None]
    /\ now = StartTime
    /\ ev = Event("init", <<>>, "ok", NoSent)
    /\ stopped = {}
    /\ sg = [pc |-> "seen", before |-> None]

\* POST /sms, observed
SmsObserved(from, rawBody) ==
    LET key == _normalize_phone(from)
        d1 == _ensure_user(db, from)
    IN  /\ \E o \in sms(d1[key][1], rawBody, now) :
            /\ o.user.stats.asked <= MaxAsked
            /\ db' = IF o.saved THEN _save(d1, key, o.user) ELSE d1
            /\ ev' = [Event("sms", key, o.res, SentTo(key, o.sent))
                         EXCEPT !.data = Some(rawBody), !.mem = Some(o.user)]
            /\ stopped' = IF o.res = "unsubscribed" THEN stopped \cup {key}
                          ELSE IF o.res = "resubscribed" THEN stopped \ {key}
                          ELSE stopped
        /\ sg' = [sg EXCEPT !.before = db[key]]
        /\ UNCHANGED now

NextSkip == \E body \in SkipBodies : SmsObserved(PhoneA, body)

SpecSkip == InitSkip /\ [][NextSkip]_vars

\* The last message was NEXT, or had nothing but blanks, and came in while
\* the sender had an open question
SkippedAQuestion ==
    /\ ev.op = "sms"
    /\ ev.data \in {Some(C_NEXT), Some(Lower(C_NEXT)), Some(<<>>), Some(Sp)}
    /\ sg.before # None
    /\ sg.before[1].open # None

\* C39: a NEXT or an empty message that comes in while a question is open
\* is answered with a new question, which becomes the open question; the
\* question it replaces is not graded, and asked, correct and streak are as
\* they were.
C39_SkipLeavesStats ==
    SkippedAQuestion =>
        /\ ev.res = "next"
        /\ ev.sent[PhoneA] # <<>>
        /\ db[PhoneA][1].open = Some(LastOf(ev.sent[PhoneA]))
        /\ db[PhoneA][1].stats = sg.before[1].stats

\* An empty message skipped an open question of a user with a streak
C39_Witness ==
    /\ SkippedAQuestion
    /\ ev.data = Some(<<>>)
    /\ db[PhoneA][1].stats.streak >= 1
    /\ db[PhoneA][1].stats.asked > db[PhoneA][1].stats.correct

====
